---------------------------- MODULE Spec2Model ----------------------------
(* A model of the dependency-aware orchestration engine:                   *)
(*   DependencyGraph      (src/src/graph/dependency_graph.py)              *)
(*   AgentPool            (src/src/agents/agent_pool.py)                   *)
(*   TaskExecutor         (src/src/orchestrator/task_executor.py)          *)
(*   TaskOrchestrator     (src/src/orchestrator/orchestrator.py)           *)
(*   DynamicDependencyManager (src/src/orchestrator/dynamic_deps.py)       *)
(* The topological engine is graphlib.TopologicalSorter, modelled by its   *)
(* node table (npredecessors with -1 = passed out, -2 = done), its ready   *)
(* list and its two counters.                                              *)
EXTENDS Integers, Sequences, FiniteSets, TLC

\* ------------------------------------------------------------------ bounds
\* Task identifiers (opaque strings in the source).
TaskIds == {"a", "b", "c"}
\* Largest dependency set handed to add_task.
MaxDeps == 2
\* Longest argument list handed to mark_completed.
MaxMark == 2

\* AgentPool.max_agents of the pool under test (the source allows 1..10).
PoolSize == 2
\* RetryConfig.max_attempts of the executor under test.
MaxAttempts == 2
\* Most entries in one add_dynamic_tasks batch.
MaxBatch == 2
\* Largest dependency set of one batch entry.
MaxBatchDeps == 1
\* Most add_dynamic_tasks calls in one run.
MaxCalls == 1
\* Most ids mark_task_completed records in one run.
MaxCompleted == 1
\* Concurrent add_dynamic_tasks calls.
NumCallers == 2
\* Largest max_attempts handed to execute_with_retry.
MaxRetryAttempts == 3
\* execute_task calls made while the pool is called directly.
MaxExecCalls == 1
\* Largest critical_task_ids set handed to orchestrate_with_early_termination.
MaxCritical == 1

VARIABLES
    graph,       \* DependencyGraph.graph: task id -> set of prerequisite ids
    is_built,    \* DependencyGraph._is_built
    sorter,      \* DependencyGraph.sorter (the TopologicalSorter, or none)
    handed,      \* observer: how often get_ready_tasks returned each id on this engine
    finished,    \* observer: ids the engine accepted in mark_completed
    completedBefore, \* observer: ids accepted in mark_completed before an add_task
                 \* invalidated the engine (the task added excepted)
    lastOp,      \* observer: the last call, what it returned or raised
    agents,      \* AgentPool.agents: index -> [status, current_task]
    semaphore,   \* TaskExecutor.semaphore (its value)
    active_tasks,\* TaskExecutor.active_tasks
    task_results,\* TaskExecutor.task_results (the ids that have a stored result)
    epc,         \* where each execute_task(task_id, ...) call stands
    agent,       \* execute_task's local `agent`, per call
    attempt,     \* execute_with_retry's `attempt`, per call
    ret,         \* what each execute_task call returned or raised
    tasks,       \* orchestrate's `tasks` argument: id -> task definition
    opc,         \* where orchestrate() stands
    ready_task_ids, \* orchestrate's `ready_task_ids` of the tick in progress
    results,     \* orchestrate's `results`
    tick,        \* observer: number of ticks that dispatched
    dispatchedAt,\* observer: the tick in which each id was dispatched (0: never)
    markedAt,    \* observer: the tick after which the graph accepted each id as done
    new_tasks_queue, \* DynamicDependencyManager.new_tasks_queue (the queued ids)
    completed_tasks, \* DynamicDependencyManager._completed_tasks
    new_tasks,   \* observer: the `new_tasks` argument of the add_dynamic_tasks just made
    add_calls,   \* observer: number of add_dynamic_tasks calls made
    lock,        \* DynamicDependencyManager.lock (TRUE: locked)
    dpc,         \* where each concurrent add_dynamic_tasks call stands
    caller_tasks,\* the `new_tasks` argument of each concurrent call
    put_count,   \* entries each concurrent call has put on new_tasks_queue
    rpc,         \* where the execute_with_retry call under study stands
    max_attempts,\* its max_attempts argument
    base_delay_seconds, \* its base_delay_seconds argument
    retry_attempt, \* its loop variable `attempt`
    last_error,  \* its `last_error`
    func_errors, \* observer: what each invocation of func raised, in order
    func_calls,  \* observer: number of invocations of func
    sleeps,      \* observer: the delays passed to asyncio.sleep, in order
    retry_out,   \* observer: what execute_with_retry returned or raised
    critical_task_ids, \* orchestrate_with_early_termination's critical_task_ids
    error_task_id, \* the task_id of the OrchestrationError it raised
    pool_op,     \* observer: the last direct AgentPool call, what it returned or raised
    report,      \* the ValidationReport of the last GraphValidator.validate call
    retry_config, \* the RetryConfig last constructed, or the error raised
    temp_graph   \* the DependencyGraph the last copy() returned

graphVars == <<graph, is_built, sorter, handed, finished, completedBefore, lastOp>>
poolVars == <<agents, semaphore, active_tasks, task_results, epc, agent, attempt, ret>>
orchVars == <<tasks, opc, ready_task_ids, results, tick, dispatchedAt, markedAt>>
dynVars == <<new_tasks_queue, completed_tasks, new_tasks, add_calls>>
lockVars == <<lock, dpc, caller_tasks, put_count>>
retryVars == <<rpc, max_attempts, base_delay_seconds, retry_attempt, last_error,
               func_errors, func_calls, sleeps, retry_out>>
earlyVars == <<critical_task_ids, error_task_id>>
callVars == <<pool_op, report, retry_config, temp_graph>>
vars == <<graphVars, poolVars, orchVars, dynVars, lockVars, retryVars, earlyVars, callVars>>

\* ------------------------------------------------------------ graph helpers
NoError == [cls |-> "none", msg |-> "none", failure_type |-> "none"]

\* critical_task_ids = None: the set that holds no task id but "None".
NoCritical == {"None"}

\* No orchestrate_with_early_termination call made; OrchestrationError's
\* task_id defaults to None.
EarlyInit ==
    /\ critical_task_ids = NoCritical
    /\ error_task_id = "None"

\* No direct call made yet.
NoCall == [op |-> "none"]

CallInit ==
    /\ pool_op = NoCall
    /\ report = NoCall
    /\ retry_config = NoCall

\* No execute_with_retry call under study.
RetryInit ==
    /\ rpc = "idle"
    /\ max_attempts = 0
    /\ base_delay_seconds = 0
    /\ retry_attempt = 0
    /\ last_error = NoError
    /\ func_errors = <<>>
    /\ func_calls = 0
    /\ sleeps = <<>>
    /\ retry_out = [kind |-> "none", error |-> NoError]

\* Concurrent callers of add_dynamic_tasks.
Callers == 1..NumCallers

\* asyncio.Lock() and no add_dynamic_tasks call started.
LockInit ==
    /\ lock = FALSE
    /\ dpc = [c \in Callers |-> "idle"]
    /\ caller_tasks = [c \in Callers |-> <<>>]
    /\ put_count = [c \in Callers |-> 0]

EmptyGraph == [n \in {} |-> {}]

DepSets == {d \in SUBSET TaskIds : Cardinality(d) <= MaxDeps}

\* The prerequisites of n in edge map g (an id that is no key has none).
Deps(g, n) == IF n \in DOMAIN g THEN g[n] ELSE {}

\* A sorter that has the keys of the edge map as its only nodes.
NodesKeysOnly(g) == DOMAIN g

\* Every node the engine knows: the keys and every id named as a dependency.
Nodes(g) == DOMAIN g \cup UNION {g[n] : n \in DOMAIN g}

\* self.graph[task_id] = set(dependencies)
PutTask(g, id, deps) ==
    [n \in DOMAIN g \cup {id} |-> IF n = id THEN deps ELSE g[n]]

RECURSIVE ReachFrom(_, _, _)
ReachFrom(g, frontier, seen) ==
    LET next == UNION {Deps(g, n) : n \in frontier} \ seen
    IN IF next = {} THEN seen ELSE ReachFrom(g, next, seen \cup next)

\* TopologicalSorter._find_cycle: some node reaches itself along the edges.
FindCycle(g) ==
    \E n \in Nodes(g) : n \in ReachFrom(g, Deps(g, n), Deps(g, n))

\* ------------------------------------------------------ topological engine
NoSorter ==
    [state |-> "none", edges |-> EmptyGraph, np |-> [n \in {} |-> 0],
     ready |-> {}, npassedout |-> 0, nfinished |-> 0]

\* TopologicalSorter(graph): one node per key and per dependency, npredecessors
\* the size of the key's dependency set.
NewSorter(g) ==
    [state |-> "new", edges |-> g,
     np |-> [n \in Nodes(g) |-> Cardinality(Deps(g, n))],
     ready |-> {}, npassedout |-> 0, nfinished |-> 0]

\* prepare(): fill the ready list, then look for a cycle (CycleError).
PrepareAllReady(s) ==
    [s EXCEPT !.ready = DOMAIN s.np,
              !.state = IF FindCycle(s.edges) THEN "cyclic" ELSE "prepared"]

Prepare(s) ==
    [s EXCEPT !.ready = {n \in DOMAIN s.np : s.np[n] = 0},
              !.state = IF FindCycle(s.edges) THEN "cyclic" ELSE "prepared"]

\* is_active(): nfinished < npassedout or the ready list is not empty.
SorterActive(s) == s.nfinished < s.npassedout \/ s.ready # {}

\* get_ready() that leaves the ready list as it is.
GetReadyPeek(s) == s

\* get_ready(): hand out the ready list, mark each node passed out (-1).
GetReady(s) ==
    [s EXCEPT !.np = [n \in DOMAIN s.np |-> IF n \in s.ready THEN -1 ELSE s.np[n]],
              !.ready = {},
              !.npassedout = s.npassedout + Cardinality(s.ready)]

Successors(s, n) == {m \in DOMAIN s.np : n \in Deps(s.edges, m)}

\* done(node) accepts only a node that is passed out.
DoneOk(s, n) == n \in DOMAIN s.np /\ s.np[n] = -1

\* done(node): mark it done (-2), decrement each successor, append the
\* successors that reach zero to the ready list.
DoneOne(s, n) ==
    LET succ == Successors(s, n)
        np1 == [m \in DOMAIN s.np |->
                  IF m = n THEN -2
                  ELSE IF m \in succ THEN s.np[m] - 1 ELSE s.np[m]]
    IN [s EXCEPT !.np = np1,
                 !.ready = s.ready \cup {m \in succ : m # n /\ np1[m] = 0},
                 !.nfinished = s.nfinished + 1]

\* done(*nodes): node by node; the first node that is not passed out raises
\* ValueError and the nodes before it stay done.
RECURSIVE DoneAll(_, _)
DoneAll(s, ids) ==
    IF ids = <<>> THEN [s |-> s, err |-> FALSE, ok |-> {}]
    ELSE IF ~DoneOk(s, Head(ids)) THEN [s |-> s, err |-> TRUE, ok |-> {}]
    ELSE LET r == DoneAll(DoneOne(s, Head(ids)), Tail(ids))
         IN [r EXCEPT !.ok = r.ok \cup {Head(ids)}]

\* ------------------------------------------------------- DependencyGraph
Op(name, result, value) == [op |-> name, result |-> result, ret |-> value]

NoHanded == [n \in TaskIds |-> 0]

\* DependencyGraph.is_active()
IsActive == is_built /\ sorter.state # "none" /\ SorterActive(sorter)

\* add_task without the invalidation of a built graph.
AddTaskKeepsEngine(id, deps) ==
    /\ graph' = PutTask(graph, id, deps)
    /\ completedBefore' = completedBefore \ {id}
    /\ lastOp' = Op("add_task", "ok", {})
    /\ UNCHANGED <<is_built, sorter, handed, finished>>

\* add_task(task_id, dependencies): upsert; a built graph is invalidated.
AddTask(id, deps) ==
    /\ graph' = PutTask(graph, id, deps)
    /\ IF is_built
         THEN /\ is_built' = FALSE
              /\ sorter' = NoSorter
              /\ handed' = NoHanded
              /\ finished' = {}
              /\ completedBefore' = (completedBefore \cup finished) \ {id}
         ELSE /\ UNCHANGED <<is_built, sorter, handed, finished>>
              /\ completedBefore' = completedBefore \ {id}
    /\ lastOp' = Op("add_task", "ok", {})

\* The sorter whose prepare() raised: build() leaves it in self.sorter, and
\* nothing reads it while the graph is not built, so its node table is left out.
FailedSorter == [NoSorter EXCEPT !.state = "cyclic"]

\* No copy() made yet.
NoTempGraph ==
    [has |-> FALSE, dict |-> "own", graph |-> EmptyGraph, is_built |-> FALSE,
     sorter |-> NoSorter]

CopyInit == temp_graph = NoTempGraph

\* The sorter build() leaves behind: a prepared one, or the one whose
\* prepare() raised.
BuiltSorter(g) ==
    LET s == Prepare(NewSorter(g))
    IN IF s.state = "prepared" THEN s ELSE FailedSorter

\* What build() makes of the built flag: set only when prepare() returned.
BuiltFlagEarly(s, was) == TRUE

BuiltFlag(s, was) == IF s.state = "prepared" THEN TRUE ELSE was

\* build(): a new sorter over the current edges; CycleDetectedError on a cycle.
BuildAs(name) ==
    LET s == BuiltSorter(graph)
    IN /\ sorter' = s
       /\ is_built' = BuiltFlag(s, is_built)
       /\ IF s.state = "prepared"
            THEN /\ lastOp' = Op(name, "ok", {})
                 /\ handed' = NoHanded
                 /\ finished' = {}
            ELSE /\ lastOp' = Op(name, "CycleDetectedError", {})
                 /\ UNCHANGED <<handed, finished>>
       /\ UNCHANGED <<graph, completedBefore>>

Build == BuildAs("build")

\* rebuild(): calls build().
Rebuild == BuildAs("rebuild")

\* get_ready_tasks(): () before build or when the engine is inactive.
GetReadyTasks ==
    IF ~is_built \/ sorter.state = "none" \/ ~SorterActive(sorter)
      THEN /\ lastOp' = Op("get_ready_tasks", "ok", {})
           /\ UNCHANGED <<graph, is_built, sorter, handed, finished, completedBefore>>
      ELSE /\ sorter' = GetReady(sorter)
           /\ lastOp' = Op("get_ready_tasks", "ok", sorter.ready)
           /\ handed' = [n \in TaskIds |->
                           IF n \in sorter.ready THEN handed[n] + 1 ELSE handed[n]]
           /\ UNCHANGED <<graph, is_built, finished, completedBefore>>

\* mark_completed(*task_ids): ValueError before build, no-op on no ids.
MarkCompleted(ids) ==
    IF ~is_built \/ sorter.state = "none"
      THEN /\ lastOp' = Op("mark_completed", "ValueError", {})
           /\ UNCHANGED <<graph, is_built, sorter, handed, finished, completedBefore>>
      ELSE IF ids = <<>>
      THEN /\ lastOp' = Op("mark_completed", "ok", {})
           /\ UNCHANGED <<graph, is_built, sorter, handed, finished, completedBefore>>
      ELSE LET r == DoneAll(sorter, ids)
           IN /\ sorter' = r.s
              /\ finished' = finished \cup r.ok
              /\ lastOp' = Op("mark_completed",
                              IF r.err THEN "ValueError" ELSE "ok", {})
              /\ UNCHANGED <<graph, is_built, handed, completedBefore>>

MarkArgs == UNION {[1..k -> TaskIds] : k \in 0..MaxMark}

\* ------------------------------------------------------------- AgentPool
Agents == 0..(PoolSize - 1)

NoTask == "none"

\* ManagedAgent(status=IDLE, current_task=None)
IdleAgent == [status |-> "idle", current_task |-> NoTask]

\* execute_task's `agent` before _wait_for_idle_agent returned.
NoAgent == [has |-> FALSE, id |-> 0]

\* get_idle_agent(): the first agent in index order whose status is IDLE.
HasIdleAgent(ags) == \E a \in Agents : ags[a].status = "idle"

GetLastIdleAgent(ags) ==
    CHOOSE a \in Agents :
        /\ ags[a].status = "idle"
        /\ \A b \in Agents : ags[b].status = "idle" => a >= b

GetIdleAgent(ags) ==
    CHOOSE a \in Agents :
        /\ ags[a].status = "idle"
        /\ \A b \in Agents : ags[b].status = "idle" => a <= b

\* mark_busy that records nothing: the agent chosen stays IDLE, as it would
\* across a suspension between choosing it and marking it.
MarkBusyLater(ags, a, t) == ags

\* mark_busy(agent, task_id) on an IDLE agent.
MarkBusy(ags, a, t) ==
    [ags EXCEPT ![a] = [status |-> "busy", current_task |-> t]]

\* mark_idle(agent): from any status.
MarkIdle(ags, a) == [ags EXCEPT ![a] = IdleAgent]

\* ----------------------------------------------------------- TaskExecutor
\* The id a returned TaskResult carries: the definition's "task_id" field,
\* "unknown" when the definition has none.
AllIds == TaskIds \cup {"unknown"}

NoOutcome ==
    [kind |-> "none", status |-> "none", task_id |-> "none", error |-> "none",
     retry_count |-> 0, attempts |-> 0]

\* CodegenExecutor.execute_task returned the TaskResult o at the n-th call of
\* execute_with_retry.
Returned(t, o, n) ==
    [kind |-> "result", status |-> o.status, task_id |-> tasks[t], error |-> o.error,
     retry_count |-> o.retry_count, attempts |-> n]

\* execute_with_retry re-raised the function's exception at its n-th call.
Raised(error, n) ==
    [kind |-> "exception", status |-> "none", task_id |-> "none", error |-> error,
     retry_count |-> 0, attempts |-> n]

\* CodegenExecutor's own retry_attempts, left at its default by TaskExecutor.
DEFAULT_RETRY_ATTEMPTS == 3

\* What CodegenExecutor.execute_task returns: the TaskResult of a single
\* attempt (retry_count left at 0), or, after its own attempts all failed
\* transiently, a FAILED TaskResult with retry_count = retry_attempts.
ExecutorResults ==
    {[status |-> "completed", error |-> "none", retry_count |-> 0],
     [status |-> "failed", error |-> "task failed", retry_count |-> 0],
     [status |-> "failed",
      error |-> "All retry attempts exhausted. Last error: Connection timeout",
      retry_count |-> DEFAULT_RETRY_ATTEMPTS]}

\* The messages exceptions carry here, and those among them in which
\* classify_error finds one of its transient patterns ("timeout",
\* "connection", ...) or one of its permanent patterns ("invalid", ...).
Messages ==
    {"Connection timeout", "Invalid input", "Invalid response: timeout",
     "Something broke"}

HasTransientPattern(msg) == msg \in {"Connection timeout", "Invalid response: timeout"}

HasPermanentPattern(msg) == msg \in {"Invalid input", "Invalid response: timeout"}

\* classify_error looking for the permanent patterns first.
ClassifyErrorPermanentFirst(msg) ==
    IF HasPermanentPattern(msg) THEN "permanent"
    ELSE IF HasTransientPattern(msg) THEN "transient"
    ELSE "unknown"

\* classify_error on an exception that is no RetryableError and of no
\* transient type: the transient patterns are looked for first, then the
\* permanent ones.
ClassifyError(msg) ==
    IF HasTransientPattern(msg) THEN "transient"
    ELSE IF HasPermanentPattern(msg) THEN "permanent"
    ELSE "unknown"

ErrorMessages == {"Connection timeout", "Invalid input"}

\* asyncio.Semaphore.acquire() returns only while the value is positive.
SemaphoreFreeAlways(v) == TRUE

SemaphoreFree(v) == v > 0

\* The step from `async with self.semaphore` to the first suspension: take a
\* slot, join active_tasks, ask the pool once; with an idle agent mark it busy
\* and start the first attempt, without one sleep in _wait_for_idle_agent.
ExecAcquire(t) ==
    /\ epc[t] = "wait_sem"
    /\ SemaphoreFree(semaphore)
    /\ semaphore' = semaphore - 1
    /\ active_tasks' = active_tasks \cup {t}
    /\ IF HasIdleAgent(agents)
         THEN LET a == GetIdleAgent(agents)
              IN /\ agents' = MarkBusy(agents, a, t)
                 /\ agent' = [agent EXCEPT ![t] = [has |-> TRUE, id |-> a]]
                 /\ attempt' = [attempt EXCEPT ![t] = 1]
                 /\ epc' = [epc EXCEPT ![t] = "running"]
         ELSE /\ epc' = [epc EXCEPT ![t] = "poll"]
              /\ UNCHANGED <<agents, agent, attempt>>
    /\ UNCHANGED <<task_results, ret, graphVars, orchVars>>

\* _wait_for_idle_agent after a sleep: ask the pool again.
ExecPoll(t) ==
    /\ epc[t] = "poll"
    /\ HasIdleAgent(agents)
    /\ LET a == GetIdleAgent(agents)
       IN /\ agents' = MarkBusy(agents, a, t)
          /\ agent' = [agent EXCEPT ![t] = [has |-> TRUE, id |-> a]]
          /\ attempt' = [attempt EXCEPT ![t] = 1]
          /\ epc' = [epc EXCEPT ![t] = "running"]
    /\ UNCHANGED <<semaphore, active_tasks, task_results, ret, graphVars, orchVars>>

\* The inner finally: the agent goes back to the pool whether the attempt
\* returned or raised.
ReleaseAgentOnReturnOnly(ags, a, raised) ==
    IF raised THEN ags ELSE MarkIdle(ags, a)

ReleaseAgent(ags, a, raised) == MarkIdle(ags, a)

\* Leaving `async with self.semaphore` gives the slot back.
ReleaseSlotNever(v) == v

ReleaseSlot(v) == v + 1

\* The outer finally: active_tasks.discard(task_id).
DiscardNever(active, t) == active

Discard(active, t) == active \ {t}

\* execute_task leaves: inner finally (mark_idle), outer finally (discard from
\* active_tasks), then the semaphore slot is given back.
ExecExit(t, out) ==
    /\ agents' = ReleaseAgent(agents, agent[t].id, out.kind = "exception")
    /\ active_tasks' = Discard(active_tasks, t)
    /\ semaphore' = ReleaseSlot(semaphore)
    /\ task_results' = IF out.kind = "result" THEN task_results \cup {t}
                       ELSE task_results
    /\ ret' = [ret EXCEPT ![t] = out]
    /\ epc' = [epc EXCEPT ![t] = IF out.kind = "result" THEN "returned" ELSE "raised"]
    /\ agent' = [agent EXCEPT ![t] = NoAgent]
    /\ attempt' = [attempt EXCEPT ![t] = 0]
    /\ UNCHANGED <<graphVars, orchVars>>

\* One attempt of execute_with_retry returns a TaskResult (COMPLETED or FAILED).
ExecAttemptReturns(t) ==
    /\ epc[t] = "running"
    /\ \E o \in ExecutorResults : ExecExit(t, Returned(t, o, attempt[t]))

\* One attempt raises: a permanent error or the last attempt re-raises; any
\* other sleeps base_delay * 2^(attempt-1) and calls the function again.
ExecAttemptRaises(t) ==
    /\ epc[t] = "running"
    /\ \E msg \in ErrorMessages :
          IF ClassifyError(msg) = "permanent" \/ attempt[t] >= MaxAttempts
            THEN ExecExit(t, Raised(msg, attempt[t]))
            ELSE /\ attempt' = [attempt EXCEPT ![t] = attempt[t] + 1]
                 /\ UNCHANGED <<agents, semaphore, active_tasks, task_results,
                                epc, agent, ret, graphVars, orchVars>>

\* ------------------------------------------------------------------ Spec
\* The executor and the orchestrator before any call.
RestInit ==
    /\ agents = [a \in Agents |-> IdleAgent]
    /\ semaphore = PoolSize
    /\ active_tasks = {}
    /\ task_results = {}
    /\ epc = [t \in TaskIds |-> "idle"]
    /\ agent = [t \in TaskIds |-> NoAgent]
    /\ attempt = [t \in TaskIds |-> 0]
    /\ ret = [t \in TaskIds |-> NoOutcome]
    /\ tasks = [t \in {} |-> "unknown"]
    /\ opc = "idle"
    /\ ready_task_ids = {}
    /\ results = <<>>
    /\ tick = 0
    /\ dispatchedAt = [t \in AllIds |-> 0]
    /\ markedAt = [t \in AllIds |-> 0]
    /\ new_tasks_queue = <<>>
    /\ completed_tasks = {}
    /\ new_tasks = <<>>
    /\ add_calls = 0
    /\ LockInit
    /\ RetryInit
    /\ EarlyInit
    /\ CallInit
    /\ CopyInit

Init ==
    /\ graph = EmptyGraph
    /\ is_built = FALSE
    /\ sorter = NoSorter
    /\ handed = NoHanded
    /\ finished = {}
    /\ completedBefore = {}
    /\ lastOp = Op("init", "ok", {})
    /\ RestInit

\* The graph's operations called in any order by a single owner.
Next ==
    \/ \E id \in TaskIds, deps \in DepSets :
          AddTask(id, deps) /\ UNCHANGED <<poolVars, orchVars, dynVars, lockVars, retryVars, earlyVars, callVars>>
    \/ Build /\ UNCHANGED <<poolVars, orchVars, dynVars, lockVars, retryVars, earlyVars, callVars>>
    \/ Rebuild /\ UNCHANGED <<poolVars, orchVars, dynVars, lockVars, retryVars, earlyVars, callVars>>
    \/ GetReadyTasks /\ UNCHANGED <<poolVars, orchVars, dynVars, lockVars, retryVars, earlyVars, callVars>>
    \/ \E ids \in MarkArgs :
          MarkCompleted(ids) /\ UNCHANGED <<poolVars, orchVars, dynVars, lockVars, retryVars, earlyVars, callVars>>

Spec == Init /\ [][Next]_vars

\* -------------------------------------------------------- TaskOrchestrator
\* The orders in which a set can be iterated.
Perms(S) ==
    {f \in [1..Cardinality(S) -> S] : \A i, j \in 1..Cardinality(S) : f[i] = f[j] => i = j}

\* orchestrate(tasks): an empty mapping returns [] at once.
OrchStart ==
    /\ opc = "idle"
    /\ opc' = IF DOMAIN tasks = {} THEN "returned" ELSE "loop"
    /\ UNCHANGED <<graphVars, poolVars, tasks, ready_task_ids, results, tick,
                   dispatchedAt, markedAt>>

\* The head of the loop, up to the gather: leave when the graph is inactive;
\* fetch the ready ids; none: sleep wait_interval and loop; otherwise build one
\* execute_task coroutine per ready id (tasks[task_id] raises KeyError for an id
\* that is no key, which orchestrate re-raises as OrchestrationError) and
\* start them all.
OrchTick ==
    /\ opc = "loop"
    /\ IF ~IsActive
         THEN /\ opc' = "returned"
              /\ UNCHANGED <<graphVars, poolVars, tasks, ready_task_ids, results,
                             tick, dispatchedAt, markedAt>>
         ELSE /\ GetReadyTasks
              /\ LET ready == lastOp'.ret
                 IN IF ready = {}
                      THEN /\ opc' = "loop"
                           /\ UNCHANGED <<epc, ready_task_ids, tick, dispatchedAt>>
                    ELSE IF ~(ready \subseteq DOMAIN tasks)
                      THEN /\ opc' = "failed"
                           /\ UNCHANGED <<epc, ready_task_ids, tick, dispatchedAt>>
                    ELSE /\ opc' = "gather"
                         /\ ready_task_ids' = ready
                         /\ epc' = [t \in TaskIds |->
                                      IF t \in ready THEN "wait_sem" ELSE epc[t]]
                         /\ tick' = tick + 1
                         /\ dispatchedAt' = [t \in AllIds |->
                                      IF t \in ready THEN tick + 1 ELSE dispatchedAt[t]]
              /\ UNCHANGED <<agents, semaphore, active_tasks, task_results, agent,
                             attempt, ret, tasks, results, markedAt>>

\* asyncio.gather(*task_coroutines, return_exceptions=True) returns when every
\* coroutine of the tick has returned or raised.
GatherAnyDone(ids) == \E t \in ids : epc[t] \in {"returned", "raised"}

GatherDone(ids) == \A t \in ids : epc[t] \in {"returned", "raised"}

\* The outcome orchestrate appends for one gathered value: a raised exception
\* becomes a FAILED TaskResult under the dispatched id with str(exception)
\* and the default retry_count; a TaskResult is appended as it is.
ResultEntry(t) ==
    IF ret[t].kind = "exception"
      THEN [task_id |-> t, status |-> "failed", error |-> ret[t].error,
            retry_count |-> 0]
      ELSE [task_id |-> ret[t].task_id, status |-> ret[t].status,
            error |-> ret[t].error, retry_count |-> ret[t].retry_count]

\* The id orchestrate puts in completed_task_ids for one gathered value: the
\* dispatched id for an exception, task_result.task_id for a TaskResult.
CompletedId(t) == IF ret[t].kind = "exception" THEN t ELSE ret[t].task_id

\* After the gather: append one outcome per gathered value, then a single
\* mark_completed(*completed_task_ids); its ValueError leaves the loop as
\* OrchestrationError.
OrchCollect ==
    /\ opc = "gather"
    /\ GatherDone(ready_task_ids)
    /\ \E order \in Perms(ready_task_ids) :
          /\ results' = results \o [i \in 1..Len(order) |-> ResultEntry(order[i])]
          /\ MarkCompleted([i \in 1..Len(order) |-> CompletedId(order[i])])
    /\ opc' = IF lastOp'.result = "ValueError" THEN "failed" ELSE "loop"
    /\ markedAt' = [t \in AllIds |->
                      IF t \in finished' \ finished THEN tick ELSE markedAt[t]]
    /\ epc' = [t \in TaskIds |->
                 IF t \in ready_task_ids /\ epc[t] \in {"returned", "raised"}
                   THEN "idle" ELSE epc[t]]
    /\ ready_task_ids' = {}
    /\ UNCHANGED <<agents, semaphore, active_tasks, task_results, agent, attempt,
                   ret, tasks, tick, dispatchedAt>>

\* The acyclic edge maps orchestrate() is started on, freshly built.
OrchGraphs ==
    {g \in UNION {[K -> DepSets] : K \in SUBSET TaskIds} : ~FindCycle(g)}

\* The task definitions: each carries its own id in "task_id" or has no such
\* field (CodegenExecutor then reports "unknown").
TaskDefs(K) == {f \in [K -> AllIds] : \A t \in K : f[t] \in {t, "unknown"}}

FailedAgent == [status |-> "failed", current_task |-> NoTask]

InitOrch ==
    /\ graph \in OrchGraphs
    /\ is_built = TRUE
    /\ sorter = BuiltSorter(graph)
    /\ handed = NoHanded
    /\ finished = {}
    /\ completedBefore = {}
    /\ lastOp = Op("build", "ok", {})
    /\ agents \in [Agents -> {IdleAgent, FailedAgent}]
    /\ semaphore = PoolSize
    /\ active_tasks = {}
    /\ task_results = {}
    /\ epc = [t \in TaskIds |-> "idle"]
    /\ agent = [t \in TaskIds |-> NoAgent]
    /\ attempt = [t \in TaskIds |-> 0]
    /\ ret = [t \in TaskIds |-> NoOutcome]
    /\ tasks \in TaskDefs(DOMAIN graph)
    /\ opc = "idle"
    /\ ready_task_ids = {}
    /\ results = <<>>
    /\ tick = 0
    /\ dispatchedAt = [t \in AllIds |-> 0]
    /\ markedAt = [t \in AllIds |-> 0]
    /\ new_tasks_queue = <<>>
    /\ completed_tasks = {}
    /\ new_tasks = <<>>
    /\ add_calls = 0
    /\ LockInit
    /\ RetryInit
    /\ EarlyInit
    /\ CallInit
    /\ CopyInit

NextOrch ==
    \/ OrchStart /\ UNCHANGED <<dynVars, lockVars, retryVars, earlyVars, callVars>>
    \/ OrchTick /\ UNCHANGED <<dynVars, lockVars, retryVars, earlyVars, callVars>>
    \/ OrchCollect /\ UNCHANGED <<dynVars, lockVars, retryVars, earlyVars, callVars>>
    \/ \E t \in TaskIds : ExecAcquire(t) /\ UNCHANGED <<dynVars, lockVars, retryVars, earlyVars, callVars>>
    \/ \E t \in TaskIds : ExecPoll(t) /\ UNCHANGED <<dynVars, lockVars, retryVars, earlyVars, callVars>>
    \/ \E t \in TaskIds : ExecAttemptReturns(t) /\ UNCHANGED <<dynVars, lockVars, retryVars, earlyVars, callVars>>
    \/ \E t \in TaskIds : ExecAttemptRaises(t) /\ UNCHANGED <<dynVars, lockVars, retryVars, earlyVars, callVars>>

\* orchestrate() on a built graph, with the executor and the pool.
SpecOrch == InitOrch /\ [][NextOrch]_vars

\* ------------------------------------------- more tasks than pool workers
\* orchestrate() on the built graph of all the task ids with no dependency,
\* more than the pool has workers, each definition carrying its id: the
\* first tick dispatches them together.
InitOrchFlat ==
    /\ InitOrch
    /\ graph = [t \in TaskIds |-> {}]
    /\ tasks = [t \in TaskIds |-> t]

\* What the rest of the program does not do meanwhile.
OrchFrame == UNCHANGED <<dynVars, lockVars, retryVars, earlyVars, callVars>>

\* The event loop runs every execute_task coroutine that can go on: at the
\* semaphore (asyncio.Semaphore wakes its waiters in turn) and in the
\* idle-agent poll (its sleep ends); every remote execution and every backoff
\* sleep ends.
ExecFairness ==
    \A t \in TaskIds :
          /\ WF_vars(ExecAcquire(t) /\ OrchFrame)
          /\ WF_vars(ExecPoll(t) /\ OrchFrame)
          /\ WF_vars((ExecAttemptReturns(t) \/ ExecAttemptRaises(t)) /\ OrchFrame)

SpecOrchFair == InitOrchFlat /\ [][NextOrch]_vars /\ ExecFairness

\* ------------------------------------- orchestrate_with_early_termination
\* The critical_task_ids arguments: None, or a set of at most MaxCritical of
\* the task ids.
CriticalSets ==
    {NoCritical} \cup {c \in SUBSET TaskIds : Cardinality(c) <= MaxCritical}

\* orchestrate_with_early_termination(tasks, critical_task_ids): None hands
\* over to orchestrate(tasks); a set goes straight to the loop.
EarlyStart(c) ==
    /\ opc = "idle"
    /\ critical_task_ids' = c
    /\ opc' = IF c = NoCritical /\ DOMAIN tasks = {} THEN "returned" ELSE "loop"
    /\ UNCHANGED <<graphVars, poolVars, tasks, ready_task_ids, results, tick,
                   dispatchedAt, markedAt, error_task_id>>

\* is_failed of one gathered value.
IsFailed(t) == ret[t].kind = "exception" \/ ret[t].status = "failed"

\* The positions of `order` whose task is critical and failed.
NoCriticalFailures(order) == {}

CriticalFailures(order) ==
    {i \in 1..Len(order) : order[i] \in critical_task_ids /\ IsFailed(order[i])}

FirstOf(S) == CHOOSE i \in S : \A j \in S : i <= j

\* The ids the early-termination loop puts in completed_task_ids: the
\* task_id of every TaskResult that is not FAILED, in order.
RECURSIVE EarlyCompletedIds(_)
EarlyCompletedIds(order) ==
    IF order = <<>> THEN <<>>
    ELSE LET t == Head(order)
         IN (IF ret[t].kind = "result" /\ ret[t].status # "failed"
               THEN <<ret[t].task_id>> ELSE <<>>)
              \o EarlyCompletedIds(Tail(order))

\* After the gather, with critical_task_ids a set: the first critical
\* failure raises OrchestrationError(task_id=task_id) out of the loop, with
\* the outcomes before it appended and nothing marked; otherwise one outcome
\* per gathered value is appended and mark_completed runs when
\* completed_task_ids is not empty.
EarlyCollect ==
    /\ opc = "gather"
    /\ critical_task_ids # NoCritical
    /\ GatherDone(ready_task_ids)
    /\ \E order \in Perms(ready_task_ids) :
          IF CriticalFailures(order) # {}
            THEN LET k == FirstOf(CriticalFailures(order))
                 IN /\ results' = results \o [i \in 1..(k - 1) |-> ResultEntry(order[i])]
                    /\ error_task_id' = order[k]
                    /\ opc' = "failed"
                    /\ UNCHANGED <<graphVars, markedAt>>
            ELSE /\ results' = results \o [i \in 1..Len(order) |-> ResultEntry(order[i])]
                 /\ IF EarlyCompletedIds(order) # <<>>
                      THEN MarkCompleted(EarlyCompletedIds(order))
                      ELSE UNCHANGED graphVars
                 /\ opc' = IF lastOp'.result = "ValueError" /\ EarlyCompletedIds(order) # <<>>
                             THEN "failed" ELSE "loop"
                 /\ markedAt' = [t \in AllIds |->
                                   IF t \in finished' \ finished THEN tick ELSE markedAt[t]]
                 /\ UNCHANGED error_task_id
    /\ epc' = [t \in TaskIds |->
                 IF t \in ready_task_ids /\ epc[t] \in {"returned", "raised"}
                   THEN "idle" ELSE epc[t]]
    /\ ready_task_ids' = {}
    /\ UNCHANGED <<agents, semaphore, active_tasks, task_results, agent, attempt,
                   ret, tasks, tick, dispatchedAt, critical_task_ids>>

NextEarly ==
    \/ \E c \in CriticalSets :
          EarlyStart(c) /\ UNCHANGED <<dynVars, lockVars, retryVars, callVars>>
    \/ OrchTick /\ UNCHANGED <<dynVars, lockVars, retryVars, earlyVars, callVars>>
    \/ critical_task_ids = NoCritical /\ OrchCollect
          /\ UNCHANGED <<dynVars, lockVars, retryVars, earlyVars, callVars>>
    \/ EarlyCollect /\ UNCHANGED <<dynVars, lockVars, retryVars, callVars>>
    \/ \E t \in TaskIds : ExecAcquire(t) /\ UNCHANGED <<dynVars, lockVars, retryVars, earlyVars, callVars>>
    \/ \E t \in TaskIds : ExecPoll(t) /\ UNCHANGED <<dynVars, lockVars, retryVars, earlyVars, callVars>>
    \/ \E t \in TaskIds : ExecAttemptReturns(t) /\ UNCHANGED <<dynVars, lockVars, retryVars, earlyVars, callVars>>
    \/ \E t \in TaskIds : ExecAttemptRaises(t) /\ UNCHANGED <<dynVars, lockVars, retryVars, earlyVars, callVars>>

\* orchestrate_with_early_termination() on a built graph.
SpecEarly == InitOrch /\ [][NextEarly]_vars

\* ------------------------------------------------ DynamicDependencyManager
\* One entry of the new_tasks mapping: the task id and its "dependencies"
\* field: a set or list ("set"), absent ("missing"), or any other value
\* ("other").
Entry(id, kind, deps) == [id |-> id, kind |-> kind, deps |-> deps]

BatchDepSets == {d \in SUBSET TaskIds : Cardinality(d) <= MaxBatchDeps}

Entries ==
    {Entry(id, "set", deps) : id \in TaskIds, deps \in BatchDepSets}
      \cup {Entry(id, kind, {}) : id \in TaskIds, kind \in {"missing", "other"}}

\* The new_tasks mappings, in their iteration order: no id twice.
Batches ==
    {b \in UNION {[1..k -> Entries] : k \in 0..MaxBatch} :
        \A i, j \in 1..Len(b) : b[i].id = b[j].id => i = j}

\* The task ids of a mapping.
BatchIdsOf(b) == {b[i].id : i \in 1..Len(b)}

WouldCreateCycleError == "DynamicTaskRegistrationError: would create a cycle"

NonExistentTaskError == "DynamicTaskRegistrationError: depends on non-existent task"

UnexpectedCycleError == "DynamicTaskRegistrationError: Unexpected cycle detected during rebuild"

\* _would_create_cycle(new_task_id, dependencies): a copy of the live edge map
\* with this one task added fails to build.
WouldCreateCycle(g, id, deps) == FindCycle(PutTask(g, id, deps))

\* _validate_dependencies_exist: every dependency is a key of the live graph
\* or in _completed_tasks.
DependenciesExist(g, done, deps) == deps \subseteq (DOMAIN g \cup done)

\* The validation loop: entry by entry against the live graph, the first
\* offending entry raises.
ValidateFirstEntry(g, done, b) ==
    IF b = <<>> THEN "ok"
    ELSE LET e == Head(b)
         IN IF e.kind # "set" THEN "ValueError"
            ELSE IF WouldCreateCycle(g, e.id, e.deps) THEN WouldCreateCycleError
            ELSE IF ~DependenciesExist(g, done, e.deps) THEN NonExistentTaskError
            ELSE "ok"

RECURSIVE ValidateEntries(_, _, _)
ValidateEntries(g, done, b) ==
    IF b = <<>> THEN "ok"
    ELSE LET e == Head(b)
         IN IF e.kind # "set" THEN "ValueError"
            ELSE IF WouldCreateCycle(g, e.id, e.deps) THEN WouldCreateCycleError
            ELSE IF ~DependenciesExist(g, done, e.deps) THEN NonExistentTaskError
            ELSE ValidateEntries(g, done, Tail(b))

\* The mutation loop: dep_graph.add_task(task_id, dep_set) for every entry.
RECURSIVE AddTasks(_, _)
AddTasks(g, b) ==
    IF b = <<>> THEN g ELSE AddTasks(PutTask(g, Head(b).id, Head(b).deps), Tail(b))

\* The edge map a failed rebuild() leaves: the mutation loop's, nothing is
\* restored.
GraphAfterFailedRebuild(before, mutated) == mutated

\* add_dynamic_tasks(new_tasks): nothing on an empty mapping; under the lock
\* validate every entry, add every entry to the graph, rebuild() (its
\* CycleDetectedError re-raised as DynamicTaskRegistrationError), then put
\* every entry on new_tasks_queue.
AddDynamicTasks(b) ==
    /\ add_calls < MaxCalls
    /\ add_calls' = add_calls + 1
    /\ new_tasks' = b
    /\ UNCHANGED completed_tasks
    /\ IF b = <<>>
         THEN /\ lastOp' = Op("add_dynamic_tasks", "ok", {})
              /\ UNCHANGED <<graph, is_built, sorter, handed, finished, completedBefore,
                              new_tasks_queue>>
       ELSE IF ValidateEntries(graph, completed_tasks, b) # "ok"
         THEN /\ lastOp' = Op("add_dynamic_tasks",
                              ValidateEntries(graph, completed_tasks, b), {})
              /\ UNCHANGED <<graph, is_built, sorter, handed, finished, completedBefore,
                              new_tasks_queue>>
       ELSE LET g == AddTasks(graph, b)
                s == BuiltSorter(g)
            IN /\ completedBefore' =
                     (completedBefore \cup finished) \ {b[i].id : i \in 1..Len(b)}
               /\ IF s.state = "prepared"
                 THEN /\ graph' = g
                      /\ sorter' = s
                      /\ is_built' = BuiltFlag(s, FALSE)
                      /\ handed' = NoHanded
                      /\ finished' = {}
                      /\ new_tasks_queue' =
                            new_tasks_queue \o [i \in 1..Len(b) |-> b[i].id]
                      /\ lastOp' = Op("add_dynamic_tasks", "ok", {})
                 ELSE /\ graph' = GraphAfterFailedRebuild(graph, g)
                      /\ sorter' = s
                      /\ is_built' = BuiltFlag(s, FALSE)
                      /\ IF is_built
                           THEN handed' = NoHanded /\ finished' = {}
                           ELSE UNCHANGED <<handed, finished>>
                      /\ lastOp' = Op("add_dynamic_tasks", UnexpectedCycleError, {})
                      /\ UNCHANGED new_tasks_queue

\* mark_task_completed(task_id)
MarkTaskCompleted(id) ==
    /\ Cardinality(completed_tasks \cup {id}) <= MaxCompleted
    /\ completed_tasks' = completed_tasks \cup {id}
    /\ lastOp' = Op("mark_task_completed", "ok", {})
    /\ new_tasks' = <<>>
    /\ UNCHANGED <<graph, is_built, sorter, handed, finished, completedBefore,
                   new_tasks_queue, add_calls>>

\* get_next_task taking the entry that was put last.
GetNextTaskNewest ==
    /\ IF new_tasks_queue = <<>>
         THEN /\ lastOp' = Op("get_next_task", "ok", {})
              /\ UNCHANGED new_tasks_queue
         ELSE /\ lastOp' = Op("get_next_task", "ok",
                              {new_tasks_queue[Len(new_tasks_queue)]})
              /\ new_tasks_queue' = SubSeq(new_tasks_queue, 1, Len(new_tasks_queue) - 1)
    /\ new_tasks' = <<>>
    /\ UNCHANGED <<graph, is_built, sorter, handed, finished, completedBefore,
                   completed_tasks, add_calls>>

\* get_next_task(timeout): the head of the queue, None when the wait times out.
GetNextTask ==
    /\ IF new_tasks_queue = <<>>
         THEN /\ lastOp' = Op("get_next_task", "ok", {})
              /\ UNCHANGED new_tasks_queue
         ELSE /\ lastOp' = Op("get_next_task", "ok", {Head(new_tasks_queue)})
              /\ new_tasks_queue' = Tail(new_tasks_queue)
    /\ new_tasks' = <<>>
    /\ UNCHANGED <<graph, is_built, sorter, handed, finished, completedBefore,
                   completed_tasks, add_calls>>

\* A manager over a freshly built graph.
InitDyn ==
    /\ graph \in OrchGraphs
    /\ is_built = TRUE
    /\ sorter = BuiltSorter(graph)
    /\ handed = NoHanded
    /\ finished = {}
    /\ completedBefore = {}
    /\ lastOp = Op("build", "ok", {})
    /\ RestInit

\* Tasks are registered while the graph's owner drains it.
NextDyn ==
    \/ \E b \in Batches : AddDynamicTasks(b) /\ UNCHANGED <<poolVars, orchVars, lockVars, retryVars, earlyVars, callVars>>
    \/ \E id \in TaskIds : MarkTaskCompleted(id) /\ UNCHANGED <<poolVars, orchVars, lockVars, retryVars, earlyVars, callVars>>
    \/ GetNextTask /\ UNCHANGED <<poolVars, orchVars, lockVars, retryVars, earlyVars, callVars>>
    \/ /\ GetReadyTasks
       /\ new_tasks' = <<>>
       /\ UNCHANGED <<poolVars, orchVars, new_tasks_queue, completed_tasks, add_calls,
                      lockVars, retryVars, earlyVars, callVars>>
    \/ \E id \in TaskIds :
          /\ MarkCompleted(<<id>>)
          /\ new_tasks' = <<>>
          /\ UNCHANGED <<poolVars, orchVars, new_tasks_queue, completed_tasks, add_calls,
                      lockVars, retryVars, earlyVars, callVars>>

SpecDyn == InitDyn /\ [][NextDyn]_vars

\* --------------------------------------- concurrent add_dynamic_tasks calls
\* asyncio.Lock.acquire() returns only while the lock is not held.
LockFreeAlways(l) == TRUE

LockFree(l) == ~l

\* The mappings caller c may register: well-formed entries for tasks that are
\* neither in the graph nor named by another caller.
CallerBatches(c) ==
    {b \in Batches :
        /\ \A i \in 1..Len(b) : b[i].kind = "set" /\ b[i].id \notin DOMAIN graph
        /\ \A d \in Callers \ {c} :
              BatchIdsOf(b) \cap BatchIdsOf(caller_tasks[d]) = {}}

\* add_dynamic_tasks(new_tasks) is called: an empty mapping returns at once,
\* any other goes on to `async with self.lock`.
DynCall(c, b) ==
    /\ dpc[c] = "idle"
    /\ caller_tasks' = [caller_tasks EXCEPT ![c] = b]
    /\ dpc' = [dpc EXCEPT ![c] = IF b = <<>> THEN "returned" ELSE "wait_lock"]
    /\ UNCHANGED <<graphVars, dynVars, lock, put_count>>

\* From the lock to the first suspension: acquire, validate every entry, add
\* every entry, rebuild(); a raise leaves `async with` and releases the lock,
\* otherwise the call stands at its first `await new_tasks_queue.put(...)`.
DynEnter(c) ==
    /\ dpc[c] = "wait_lock"
    /\ LockFree(lock)
    /\ LET b == caller_tasks[c]
           v == ValidateEntries(graph, completed_tasks, b)
           g == AddTasks(graph, b)
           s == BuiltSorter(g)
       IN IF v # "ok"
            THEN /\ dpc' = [dpc EXCEPT ![c] = "raised"]
                 /\ lastOp' = Op("add_dynamic_tasks", v, {})
                 /\ UNCHANGED <<graph, is_built, sorter, handed, finished,
                                completedBefore, lock>>
            ELSE /\ completedBefore' = (completedBefore \cup finished) \ BatchIdsOf(b)
                 /\ sorter' = s
                 /\ is_built' = BuiltFlag(s, FALSE)
                 /\ IF s.state = "prepared"
                      THEN /\ graph' = g
                           /\ handed' = NoHanded
                           /\ finished' = {}
                           /\ dpc' = [dpc EXCEPT ![c] = "put"]
                           /\ lock' = TRUE
                           /\ UNCHANGED lastOp
                      ELSE /\ graph' = GraphAfterFailedRebuild(graph, g)
                           /\ IF is_built
                                THEN handed' = NoHanded /\ finished' = {}
                                ELSE UNCHANGED <<handed, finished>>
                           /\ dpc' = [dpc EXCEPT ![c] = "raised"]
                           /\ lastOp' = Op("add_dynamic_tasks", UnexpectedCycleError, {})
                           /\ UNCHANGED lock
    /\ UNCHANGED <<dynVars, caller_tasks, put_count>>

\* One `await self.new_tasks_queue.put((task_id, task_data))` completes; after
\* the last one the call leaves `async with self.lock` and returns.
DynPut(c) ==
    /\ dpc[c] = "put"
    /\ LET b == caller_tasks[c]
           k == put_count[c] + 1
       IN /\ new_tasks_queue' = Append(new_tasks_queue, b[k].id)
          /\ put_count' = [put_count EXCEPT ![c] = k]
          /\ IF k = Len(b)
               THEN /\ lock' = FALSE
                    /\ dpc' = [dpc EXCEPT ![c] = "returned"]
                    /\ lastOp' = Op("add_dynamic_tasks", "ok", {})
               ELSE UNCHANGED <<lock, dpc, lastOp>>
    /\ UNCHANGED <<graph, is_built, sorter, handed, finished, completedBefore,
                   completed_tasks, new_tasks, add_calls, caller_tasks>>

\* A manager over a freshly built graph of at most one task.
InitDynConc ==
    /\ graph \in {g \in OrchGraphs : Cardinality(DOMAIN g) <= 1}
    /\ is_built = TRUE
    /\ sorter = BuiltSorter(graph)
    /\ handed = NoHanded
    /\ finished = {}
    /\ completedBefore = {}
    /\ lastOp = Op("build", "ok", {})
    /\ RestInit

NextDynConc ==
    \/ \E c \in Callers : \E b \in CallerBatches(c) :
          DynCall(c, b) /\ UNCHANGED <<poolVars, orchVars, retryVars, earlyVars, callVars>>
    \/ \E c \in Callers : DynEnter(c) /\ UNCHANGED <<poolVars, orchVars, retryVars, earlyVars, callVars>>
    \/ \E c \in Callers : DynPut(c) /\ UNCHANGED <<poolVars, orchVars, retryVars, earlyVars, callVars>>

SpecDynConc == InitDynConc /\ [][NextDynConc]_vars

\* ------------------------------------------------------ execute_with_retry
FailureTypes == {"transient", "permanent", "unknown"}

\* The exception classes told apart by classify_error: RetryableError with
\* its own failure_type, the transient types, any other Exception.
TransientErrorTypes == {"TimeoutError", "ConnectionError"}

RetryErrors ==
    {[cls |-> "RetryableError", msg |-> "Invalid input", failure_type |-> ft] :
        ft \in FailureTypes}
      \cup {[cls |-> c, msg |-> msg, failure_type |-> "none"] :
              c \in TransientErrorTypes \cup {"Exception"}, msg \in Messages}

\* classify_error(error)
ClassifyException(e) ==
    IF e.cls = "RetryableError" THEN e.failure_type
    ELSE IF e.cls \in TransientErrorTypes THEN "transient"
    ELSE ClassifyError(e.msg)

\* "Don't retry permanent failures"
AbortsOnNothing(ft) == FALSE

AbortsOn(ft) == ft = "permanent"

\* delay = base_delay_seconds * (2 ** (attempt - 1))
BackoffDelayConstant(base, n) == base

BackoffDelay(base, n) == base * 2^(n - 1)

BaseDelays == {0, 1, 30}

RuntimeError == [cls |-> "RuntimeError", msg |-> "Retry logic failed unexpectedly",
                 failure_type |-> "none"]

\* execute_with_retry(task_id, func, max_attempts, base_delay_seconds) is
\* called; range(1, max_attempts + 1) is empty for max_attempts < 1 and the
\* call falls through to RuntimeError.
RetryCall(n, base) ==
    /\ rpc = "idle"
    /\ max_attempts' = n
    /\ base_delay_seconds' = base
    /\ IF n >= 1
         THEN /\ rpc' = "attempt"
              /\ retry_attempt' = 1
              /\ UNCHANGED retry_out
         ELSE /\ rpc' = "raised"
              /\ retry_out' = [kind |-> "exception", error |-> RuntimeError]
              /\ UNCHANGED retry_attempt
    /\ UNCHANGED <<last_error, func_errors, func_calls, sleeps>>

\* func returns: execute_with_retry returns its result.
RetryAttemptReturns ==
    /\ rpc = "attempt"
    /\ func_calls' = func_calls + 1
    /\ rpc' = "returned"
    /\ retry_out' = [kind |-> "result", error |-> NoError]
    /\ UNCHANGED <<max_attempts, base_delay_seconds, retry_attempt, last_error,
                   func_errors, sleeps>>

\* func raises e, with the backoff sleep taken before the error is looked at.
RetryAttemptRaisesAfterSleep(e) ==
    /\ rpc = "attempt"
    /\ func_calls' = func_calls + 1
    /\ func_errors' = Append(func_errors, e)
    /\ last_error' = e
    /\ sleeps' = Append(sleeps, BackoffDelay(base_delay_seconds, retry_attempt))
    /\ IF AbortsOn(ClassifyException(e)) \/ retry_attempt >= max_attempts
         THEN /\ rpc' = "raised"
              /\ retry_out' = [kind |-> "exception", error |-> e]
              /\ UNCHANGED retry_attempt
         ELSE /\ retry_attempt' = retry_attempt + 1
              /\ UNCHANGED <<rpc, retry_out>>
    /\ UNCHANGED <<max_attempts, base_delay_seconds>>

\* func raises e: a permanent failure and the last attempt re-raise e; any
\* other sleeps the backoff delay and goes to the next attempt.
RetryAttemptRaises(e) ==
    /\ rpc = "attempt"
    /\ func_calls' = func_calls + 1
    /\ func_errors' = Append(func_errors, e)
    /\ last_error' = e
    /\ IF AbortsOn(ClassifyException(e)) \/ retry_attempt >= max_attempts
         THEN /\ rpc' = "raised"
              /\ retry_out' = [kind |-> "exception", error |-> e]
              /\ UNCHANGED <<retry_attempt, sleeps>>
         ELSE /\ sleeps' = Append(sleeps, BackoffDelay(base_delay_seconds, retry_attempt))
              /\ retry_attempt' = retry_attempt + 1
              /\ UNCHANGED <<rpc, retry_out>>
    /\ UNCHANGED <<max_attempts, base_delay_seconds>>

NextRetry ==
    \/ \E n \in 0..MaxRetryAttempts, base \in BaseDelays :
          RetryCall(n, base) /\ UNCHANGED <<graphVars, poolVars, orchVars, dynVars, lockVars, earlyVars, callVars>>
    \/ RetryAttemptReturns /\ UNCHANGED <<graphVars, poolVars, orchVars, dynVars, lockVars, earlyVars, callVars>>
    \/ \E e \in RetryErrors :
          RetryAttemptRaises(e) /\ UNCHANGED <<graphVars, poolVars, orchVars, dynVars, lockVars, earlyVars, callVars>>

\* One execute_with_retry call on a function that returns or raises as it likes.
SpecRetry == Init /\ [][NextRetry]_vars

\* ------------------------------------------------------------ RetryConfig
ConfigAttempts == (0 - 1)..MaxRetryAttempts

ConfigDelays == BaseDelays \cup {0 - 1}

\* RetryConfig.__init__ raises ValueError for a negative max_attempts or
\* base_delay_seconds, and for nothing else.
ConfigRejects(n, base, enabled) == n < 0 \/ base < 0

\* RetryConfig(max_attempts, base_delay_seconds, enabled)
RetryConfigNew(n, base, enabled) ==
    /\ rpc = "idle"
    /\ retry_config' = [op |-> "RetryConfig",
                        result |-> IF ConfigRejects(n, base, enabled)
                                     THEN "ValueError" ELSE "ok",
                        max_attempts |-> n,
                        base_delay_seconds |-> base,
                        enabled |-> enabled]
    /\ UNCHANGED <<pool_op, report, temp_graph>>

\* TaskExecutor.execute_task with retry_config.enabled: execute_with_retry is
\* called with the configured max_attempts and base_delay_seconds.
ConfiguredRetryCall ==
    /\ retry_config.op = "RetryConfig"
    /\ retry_config.result = "ok"
    /\ retry_config.enabled
    /\ RetryCall(retry_config.max_attempts, retry_config.base_delay_seconds)

NextConfig ==
    \/ \E n \in ConfigAttempts, base \in ConfigDelays, enabled \in BOOLEAN :
          RetryConfigNew(n, base, enabled) /\ UNCHANGED <<graphVars, poolVars, orchVars, dynVars, lockVars, retryVars, earlyVars>>
    \/ ConfiguredRetryCall /\ UNCHANGED <<graphVars, poolVars, orchVars, dynVars, lockVars, earlyVars, callVars>>
    \/ RetryAttemptReturns /\ UNCHANGED <<graphVars, poolVars, orchVars, dynVars, lockVars, earlyVars, callVars>>
    \/ \E e \in RetryErrors :
          RetryAttemptRaises(e) /\ UNCHANGED <<graphVars, poolVars, orchVars, dynVars, lockVars, earlyVars, callVars>>

\* A retry configuration is constructed, then used for one execute_task call.
SpecConfig == Init /\ [][NextConfig]_vars

\* ------------------------------------------- tasks that discover new tasks
\* The single-entry mappings TaskExecutionContext.add_discovered_task hands to
\* add_dynamic_tasks: {task_id: {"dependencies": dependencies, ...}}.
DiscoveredBatches == {<<Entry(id, "set", deps)>> : id \in TaskIds, deps \in BatchDepSets}

\* TaskExecutionContext.add_discovered_task called by the running task t:
\* add_dynamic_tasks on the graph orchestrate() is draining, while t holds its
\* worker and its tick is being gathered. The tasks discovered here are new
\* to the graph and pass the manager's validation.
AddDiscoveredTask(t, b) ==
    /\ epc[t] = "running"
    /\ b[1].id \notin DOMAIN graph
    /\ ValidateEntries(graph, completed_tasks, b) = "ok"
    /\ AddDynamicTasks(b)
    /\ UNCHANGED <<poolVars, orchVars, lockVars, retryVars, earlyVars, callVars>>

\* orchestrate(tasks) on a built graph with a manager on the same graph; the
\* tasks mapping holds a definition, carrying its own id, for every id a task
\* may discover, and the graph leaves an id to discover.
InitOrchDyn ==
    /\ graph \in {g \in OrchGraphs : DOMAIN g # TaskIds}
    /\ is_built = TRUE
    /\ sorter = BuiltSorter(graph)
    /\ handed = NoHanded
    /\ finished = {}
    /\ completedBefore = {}
    /\ lastOp = Op("build", "ok", {})
    /\ agents \in [Agents -> {IdleAgent, FailedAgent}]
    /\ semaphore = PoolSize
    /\ active_tasks = {}
    /\ task_results = {}
    /\ epc = [t \in TaskIds |-> "idle"]
    /\ agent = [t \in TaskIds |-> NoAgent]
    /\ attempt = [t \in TaskIds |-> 0]
    /\ ret = [t \in TaskIds |-> NoOutcome]
    /\ tasks = [t \in TaskIds |-> t]
    /\ opc = "idle"
    /\ ready_task_ids = {}
    /\ results = <<>>
    /\ tick = 0
    /\ dispatchedAt = [t \in AllIds |-> 0]
    /\ markedAt = [t \in AllIds |-> 0]
    /\ new_tasks_queue = <<>>
    /\ completed_tasks = {}
    /\ new_tasks = <<>>
    /\ add_calls = 0
    /\ LockInit
    /\ RetryInit
    /\ EarlyInit
    /\ CallInit
    /\ CopyInit

NextOrchDyn ==
    \/ OrchStart /\ UNCHANGED <<dynVars, lockVars, retryVars, earlyVars, callVars>>
    \/ OrchTick /\ UNCHANGED <<dynVars, lockVars, retryVars, earlyVars, callVars>>
    \/ OrchCollect /\ UNCHANGED <<dynVars, lockVars, retryVars, earlyVars, callVars>>
    \/ \E t \in TaskIds : ExecAcquire(t) /\ UNCHANGED <<dynVars, lockVars, retryVars, earlyVars, callVars>>
    \/ \E t \in TaskIds : ExecPoll(t) /\ UNCHANGED <<dynVars, lockVars, retryVars, earlyVars, callVars>>
    \/ \E t \in TaskIds : ExecAttemptReturns(t) /\ UNCHANGED <<dynVars, lockVars, retryVars, earlyVars, callVars>>
    \/ \E t \in TaskIds : ExecAttemptRaises(t) /\ UNCHANGED <<dynVars, lockVars, retryVars, earlyVars, callVars>>
    \/ \E t \in TaskIds, b \in DiscoveredBatches : AddDiscoveredTask(t, b)

SpecOrchDyn == InitOrchDyn /\ [][NextOrchDyn]_vars

\* ------------------------------------------------- direct AgentPool calls
\* get_idle_agent() returning None.
NoneAgent == -1

\* What one AgentPool call did: the agent it was given (NoneAgent for
\* get_idle_agent), "ok" or the error raised, and the value returned.
PoolOp(name, a, result, value) ==
    [op |-> name, agent |-> a, result |-> result, ret |-> value]

\* get_idle_agent()
PoolGetIdleAgent ==
    /\ pool_op' = PoolOp("get_idle_agent", NoneAgent, "ok",
                         IF HasIdleAgent(agents) THEN GetIdleAgent(agents) ELSE NoneAgent)
    /\ UNCHANGED agents

\* mark_busy raises ValueError unless the agent is IDLE.
MarkBusyAlways(status) == TRUE

MarkBusyAllowed(status) == status = "idle"

\* mark_busy(agent, task_id)
PoolMarkBusy(a, t) ==
    IF MarkBusyAllowed(agents[a].status)
      THEN /\ agents' = MarkBusy(agents, a, t)
           /\ pool_op' = PoolOp("mark_busy", a, "ok", NoneAgent)
      ELSE /\ pool_op' = PoolOp("mark_busy", a, "ValueError", NoneAgent)
           /\ UNCHANGED agents

\* mark_idle(agent)
PoolMarkIdle(a) ==
    /\ agents' = MarkIdle(agents, a)
    /\ pool_op' = PoolOp("mark_idle", a, "ok", NoneAgent)

\* get_stats(): the number of agents in each status.
GetStats(ags) ==
    [s \in {"idle", "busy", "failed"} |->
        Cardinality({a \in DOMAIN ags : ags[a].status = s})]

\* mark_failed that leaves the task assignment in place.
PoolMarkFailedKeepsTask(a) ==
    /\ agents' = [agents EXCEPT ![a].status = "failed"]
    /\ pool_op' = PoolOp("mark_failed", a, "ok", NoneAgent)

\* mark_failed(agent): FAILED, the task assignment cleared.
PoolMarkFailed(a) ==
    /\ agents' = [agents EXCEPT ![a] = FailedAgent]
    /\ pool_op' = PoolOp("mark_failed", a, "ok", NoneAgent)

\* reset_agent(agent): ValueError unless the agent is FAILED.
PoolResetAgent(a) ==
    IF agents[a].status = "failed"
      THEN /\ agents' = MarkIdle(agents, a)
           /\ pool_op' = PoolOp("reset_agent", a, "ok", NoneAgent)
      ELSE /\ pool_op' = PoolOp("reset_agent", a, "ValueError", NoneAgent)
           /\ UNCHANGED agents

\* The caller cancels the call while it is suspended in _wait_for_idle_agent's
\* sleep or in the remote execution: CancelledError passes `except Exception`,
\* the inner finally runs only when the inner try was entered, the outer
\* finally and the semaphore's __aexit__ always run.
ExecCancelled(t) ==
    /\ epc[t] \in {"poll", "running"}
    /\ IF agent[t].has
         THEN ExecExit(t, Raised("CancelledError", attempt[t]))
         ELSE /\ active_tasks' = Discard(active_tasks, t)
              /\ semaphore' = ReleaseSlot(semaphore)
              /\ ret' = [ret EXCEPT ![t] = Raised("CancelledError", attempt[t])]
              /\ epc' = [epc EXCEPT ![t] = "raised"]
              /\ UNCHANGED <<agents, task_results, agent, attempt, graphVars, orchVars>>

\* The execute_task calls started so far.
ExecCalls == {t \in TaskIds : epc[t] # "idle" \/ ret[t] # NoOutcome}

\* A caller starts execute_task(task_id, task_data), once per task.
ExecCall(t) ==
    /\ epc[t] = "idle"
    /\ ret[t] = NoOutcome
    /\ Cardinality(ExecCalls) < MaxExecCalls
    /\ epc' = [epc EXCEPT ![t] = "wait_sem"]
    /\ UNCHANGED <<agents, semaphore, active_tasks, task_results, agent, attempt, ret,
                   graphVars, orchVars>>

\* What a direct pool call leaves alone.
PoolFrame ==
    UNCHANGED <<graphVars, semaphore, active_tasks, task_results, epc, agent, attempt,
                ret, orchVars, dynVars, lockVars, retryVars, earlyVars, report,
                retry_config, temp_graph>>

\* What a step of execute_task leaves alone; the observer of direct pool
\* calls is cleared.
ExecFrame ==
    /\ pool_op' = NoCall
    /\ UNCHANGED <<dynVars, lockVars, retryVars, earlyVars, report, retry_config,
                   temp_graph>>

NextPool ==
    \/ PoolGetIdleAgent /\ PoolFrame
    \/ \E a \in Agents, t \in TaskIds : PoolMarkBusy(a, t) /\ PoolFrame
    \/ \E a \in Agents : PoolMarkIdle(a) /\ PoolFrame
    \/ \E a \in Agents : PoolMarkFailed(a) /\ PoolFrame
    \/ \E a \in Agents : PoolResetAgent(a) /\ PoolFrame
    \/ \E t \in TaskIds : ExecCall(t) /\ ExecFrame
    \/ \E t \in TaskIds : ExecAcquire(t) /\ ExecFrame
    \/ \E t \in TaskIds : ExecPoll(t) /\ ExecFrame
    \/ \E t \in TaskIds : ExecAttemptReturns(t) /\ ExecFrame
    \/ \E t \in TaskIds : ExecAttemptRaises(t) /\ ExecFrame
    \/ \E t \in TaskIds : ExecCancelled(t) /\ ExecFrame

\* The pool called directly while execute_task calls run on it, from a pool
\* of idle and failed agents and tasks that carry their ids.
SpecPool == InitOrchFlat /\ [][NextPool]_vars

\* ---------------------------------------------------------- GraphValidator
\* The position of x in sequence s (list.index).
IndexOf(s, x) == CHOOSE i \in 1..Len(s) : s[i] = x /\ \A j \in 1..(i - 1) : s[j] # x

\* The members of set S in the order a set iteration yields them; `order`
\* lists every id once and stands for the iteration order of Python's sets.
Iterate(S, order) == SelectSeq(order, LAMBDA x : x \in S)

\* _visited, _rec_stack, _path of the validator, and the cycle just returned
\* (<<>> for None).
DfsState(visited, rec_stack, path, found) ==
    [visited |-> visited, rec_stack |-> rec_stack, path |-> path, found |-> found]

\* _dfs_cycle_detect(node, graph, all_nodes): DfsCycleDetect enters the node,
\* DfsDeps is its loop over the dependencies still to look at. A cycle is
\* returned at once, with no backtracking; the loop's end backtracks.
RECURSIVE DfsCycleDetect(_, _, _, _)
RECURSIVE DfsDeps(_, _, _, _, _)
DfsDeps(node, deps, g, order, st) ==
    IF deps = <<>>
      THEN DfsState(st.visited, st.rec_stack \ {node},
                    SubSeq(st.path, 1, Len(st.path) - 1), <<>>)
    ELSE LET dep == Head(deps)
         IN IF dep \notin st.visited
              THEN LET r == DfsCycleDetect(dep, g, order, st)
                   IN IF r.found # <<>> THEN r
                      ELSE DfsDeps(node, Tail(deps), g, order, r)
            ELSE IF dep \in st.rec_stack
              THEN [st EXCEPT !.found =
                      SubSeq(st.path, IndexOf(st.path, dep), Len(st.path)) \o <<dep>>]
            ELSE DfsDeps(node, Tail(deps), g, order, st)

DfsCycleDetect(node, g, order, st) ==
    DfsDeps(node, Iterate(Deps(g, node), order), g, order,
            DfsState(st.visited \cup {node}, st.rec_stack \cup {node},
                     Append(st.path, node), <<>>))

\* The loop of _detect_cycles over the nodes still to start from: the
\* validator's state carries over from one start to the next.
RECURSIVE DetectFrom(_, _, _, _, _)
DetectFrom(nodes, g, order, st, cycles) ==
    IF nodes = <<>> THEN cycles
    ELSE IF Head(nodes) \in st.visited
      THEN DetectFrom(Tail(nodes), g, order, st, cycles)
    ELSE LET r == DfsCycleDetect(Head(nodes), g, order, st)
         IN DetectFrom(Tail(nodes), g, order, r,
                       IF r.found # <<>> THEN Append(cycles, r.found) ELSE cycles)

\* _detect_cycles(graph)
DetectCycles(g, order) ==
    IF DOMAIN g = {} THEN <<>>
    ELSE DetectFrom(Iterate(Nodes(g), order), g, order,
                    DfsState({}, {}, <<>>, <<>>), <<>>)

\* _check_missing_refs(graph)
CheckMissingRefs(g) == UNION {g[n] : n \in DOMAIN g} \ DOMAIN g

\* _find_end_nodes stopping at one end node.
FindOneEndNode(g) ==
    LET ends == {t \in DOMAIN g : \A u \in DOMAIN g : t \notin g[u]}
    IN IF ends = {} THEN {} ELSE {CHOOSE t \in ends : TRUE}

\* _find_end_nodes: the tasks no task depends on.
FindEndNodes(g) == {t \in DOMAIN g : \A u \in DOMAIN g : t \notin g[u]}

\* _check_orphaned_tasks(graph): the tasks no end node reaches; none when
\* there is no end node.
CheckOrphanedTasks(g) ==
    IF FindEndNodes(g) = {} THEN {}
    ELSE DOMAIN g \ ReachFrom(g, FindEndNodes(g), FindEndNodes(g))

\* ValidationReport.is_valid: cleared by add_error only, and only cycles are
\* added as errors.
IsValidWithoutWarnings(cycles, missing, orphaned) ==
    cycles = <<>> /\ missing = {} /\ orphaned = {}

IsValid(cycles, missing, orphaned) == cycles = <<>>

\* validate(graph): cycles, then missing references, then, without cycles,
\* orphaned tasks.
Validate(order) ==
    LET cycles == DetectCycles(graph, order)
        missing == CheckMissingRefs(graph)
        orphaned == IF cycles = <<>> THEN CheckOrphanedTasks(graph) ELSE {}
    IN /\ report' = [op |-> "validate",
                     is_valid |-> IsValid(cycles, missing, orphaned),
                     cycles |-> cycles, missing_refs |-> missing,
                     orphaned_tasks |-> orphaned]
       /\ UNCHANGED <<graphVars, poolVars, orchVars, dynVars, lockVars, retryVars,
                      earlyVars, pool_op, retry_config, temp_graph>>

\* Every edge map over the task ids, cyclic ones included, not yet built.
InitValidate ==
    /\ graph \in UNION {[K -> DepSets] : K \in SUBSET TaskIds}
    /\ is_built = FALSE
    /\ sorter = NoSorter
    /\ handed = NoHanded
    /\ finished = {}
    /\ completedBefore = {}
    /\ lastOp = Op("init", "ok", {})
    /\ RestInit

NextValidate ==
    \/ \E order \in Perms(TaskIds) : Validate(order)
    \/ Build /\ UNCHANGED <<poolVars, orchVars, dynVars, lockVars, retryVars, earlyVars, callVars>>

\* validate() and build() on the same edges.
SpecValidate == InitValidate /\ [][NextValidate]_vars

\* ------------------------------------------------- DependencyGraph.copy
CopyIds == {"a", "b"}

CopyDepSets == SUBSET CopyIds

\* copy() handing out a graph whose edge map is the original's dict.
GraphCopyShared(g) ==
    [has |-> TRUE, dict |-> "live", graph |-> g, is_built |-> FALSE,
     sorter |-> NoSorter]

\* copy(): a new DependencyGraph (not built, no sorter) with a dict of its own
\* holding a new set per task.
GraphCopy(g) ==
    [has |-> TRUE, dict |-> "own", graph |-> g, is_built |-> FALSE,
     sorter |-> NoSorter]

\* The edge map a copy reads: its own dict, or the original's.
TempEdges(tg, g) == IF tg.dict = "own" THEN tg.graph ELSE g

\* add_task on graph object tg whose edge map is e.
TempAfterAdd(tg, e, id, deps) ==
    [tg EXCEPT !.graph = PutTask(e, id, deps),
               !.is_built = FALSE,
               !.sorter = IF tg.is_built THEN NoSorter ELSE tg.sorter]

\* build() on graph object tg whose edge map is e.
TempAfterBuild(tg, e) ==
    [tg EXCEPT !.sorter = BuiltSorter(e),
               !.is_built = BuiltFlag(BuiltSorter(e), tg.is_built)]

\* graph.copy()
CopyCall ==
    /\ temp_graph' = GraphCopy(graph)
    /\ lastOp' = Op("copy", "ok", {})
    /\ UNCHANGED <<graph, is_built, sorter, handed, finished, completedBefore>>

\* add_task on the copy.
TempAddTask(id, deps) ==
    /\ temp_graph.has
    /\ temp_graph' = TempAfterAdd(temp_graph, TempEdges(temp_graph, graph), id, deps)
    /\ graph' = IF temp_graph.dict = "own" THEN graph ELSE PutTask(graph, id, deps)
    /\ lastOp' = Op("temp.add_task", "ok", {})
    /\ UNCHANGED <<is_built, sorter, handed, finished, completedBefore>>

\* build() on the copy.
TempBuild ==
    /\ temp_graph.has
    /\ temp_graph' = TempAfterBuild(temp_graph, TempEdges(temp_graph, graph))
    /\ lastOp' = Op("temp.build",
                    IF temp_graph'.sorter.state = "prepared"
                      THEN "ok" ELSE "CycleDetectedError", {})
    /\ UNCHANGED <<graph, is_built, sorter, handed, finished, completedBefore>>

\* _would_create_cycle(new_task_id, dependencies): copy the live graph, add
\* the task to the copy, build the copy; True when the build raises.
WouldCreateCycleCall(id, deps) ==
    LET c == GraphCopy(graph)
        added == TempAfterAdd(c, TempEdges(c, graph), id, deps)
        live == IF c.dict = "own" THEN graph ELSE PutTask(graph, id, deps)
        built == TempAfterBuild(added, TempEdges(added, live))
    IN /\ temp_graph' = built
       /\ graph' = live
       /\ lastOp' = Op("_would_create_cycle",
                       IF built.sorter.state = "prepared" THEN "False" ELSE "True", {})
       /\ UNCHANGED <<is_built, sorter, handed, finished, completedBefore>>

CopyFrame == UNCHANGED <<poolVars, orchVars, dynVars, lockVars, retryVars, earlyVars,
                         pool_op, report, retry_config>>

NextCopy ==
    \/ \E id \in CopyIds, deps \in CopyDepSets :
          AddTask(id, deps) /\ UNCHANGED <<poolVars, orchVars, dynVars, lockVars, retryVars, earlyVars, callVars>>
    \/ Build /\ UNCHANGED <<poolVars, orchVars, dynVars, lockVars, retryVars, earlyVars, callVars>>
    \/ CopyCall /\ CopyFrame
    \/ \E id \in CopyIds, deps \in CopyDepSets : TempAddTask(id, deps) /\ CopyFrame
    \/ TempBuild /\ CopyFrame
    \/ \E id \in CopyIds, deps \in CopyDepSets : WouldCreateCycleCall(id, deps) /\ CopyFrame

\* A graph and its copies, each changed and built in any order.
SpecCopy == Init /\ [][NextCopy]_vars

\* ---------------------------------------------------------------- claims
\* Kahn's elimination: strip the nodes with no prerequisite left; the edge map
\* is acyclic iff nothing remains.
RECURSIVE Peel(_, _)
Peel(g, rem) ==
    LET free == {n \in rem : Deps(g, n) \cap rem = {}}
    IN IF free = {} THEN rem ELSE Peel(g, rem \ free)

Acyclic(g) == Peel(g, Nodes(g)) = {}

\* C1: on a built (hence acyclic) graph, draining get_ready_tasks() and
\* mark_completed() hands out no node twice, hands out a node only when all
\* its prerequisites have been marked completed, and once is_active() is
\* false every node has been handed out exactly once and completed.
C1_TopologicalDrain ==
    is_built =>
        /\ \A n \in TaskIds : handed[n] <= 1
        /\ \A n \in TaskIds : handed[n] >= 1 => Deps(graph, n) \subseteq finished
        /\ lastOp.op = "get_ready_tasks" =>
              \A n \in lastOp.ret : Deps(graph, n) \subseteq finished
        /\ ~IsActive =>
              \A n \in Nodes(graph) : handed[n] = 1 /\ n \in finished

\* A three-node chain drained to the end.
C1_Witness ==
    /\ is_built /\ ~IsActive
    /\ DOMAIN graph = TaskIds
    /\ \E n, m \in TaskIds : m \in graph[n] /\ graph[m] # {}
    /\ finished = TaskIds
    /\ \A n \in TaskIds : handed[n] = 1

\* C7: build() and rebuild() raise CycleDetectedError exactly when the edge
\* map has a cycle and then leave the graph not built; a built graph is acyclic.
C7_BuildRejectsCycles ==
    /\ is_built => Acyclic(graph)
    /\ lastOp.op \in {"build", "rebuild"} =>
          /\ lastOp.result = "CycleDetectedError" <=> ~Acyclic(graph)
          /\ lastOp.result = "CycleDetectedError" => ~is_built
          /\ lastOp.result = "ok" => is_built

\* rebuild() of a graph that was built, then given a three-node cycle.
C7_Witness ==
    /\ lastOp.op = "rebuild" /\ lastOp.result = "CycleDetectedError"
    /\ DOMAIN graph = TaskIds
    /\ graph["a"] = {"b"} /\ graph["b"] = {"c"} /\ graph["c"] = {"a"}
    /\ ~is_built

PastSemaphore == {t \in TaskIds : epc[t] \in {"poll", "running"}}

BusyAgents == {a \in Agents : agents[a].status = "busy"}

\* C3: the calls past the semaphore, and the busy workers, never outnumber
\* the pool's capacity, however many calls were started together.
C3_BoundedConcurrency ==
    /\ semaphore >= 0
    /\ Cardinality(PastSemaphore) = PoolSize - semaphore
    /\ Cardinality(PastSemaphore) <= PoolSize
    /\ Cardinality(BusyAgents) <= Cardinality(PastSemaphore)
    /\ active_tasks = PastSemaphore

\* More calls than workers: every worker busy, no slot left, a call waiting.
C3_Witness ==
    /\ semaphore = 0
    /\ Cardinality(BusyAgents) = PoolSize
    /\ \E t \in TaskIds : epc[t] = "wait_sem"

\* C4: the step in which execute_task returns or raises leaves the worker it
\* had marked busy idle with no current task.
C4_WorkerReleasedOnExit ==
    [][\A t \in TaskIds :
          (epc[t] = "running" /\ epc'[t] \in {"returned", "raised"}) =>
              agents'[agent[t].id] = IdleAgent]_vars

\* A call that raised after its last attempt, and no worker is busy.
C4_Witness ==
    /\ \E t \in TaskIds :
          /\ epc[t] = "raised"
          /\ ret[t].attempts = MaxAttempts
          /\ ClassifyError(ret[t].error) = "transient"
    /\ BusyAgents = {}

\* The results that name id t.
ResultsFor(t) == {i \in 1..Len(results) : results[i].task_id = t}

OneOutcomePerTask ==
    /\ Len(results) = Cardinality(Nodes(graph))
    /\ \A t \in Nodes(graph) : Cardinality(ResultsFor(t)) = 1
    /\ \A t \in Nodes(graph) :
          ret[t].kind = "exception" =>
             \A i \in ResultsFor(t) :
                results[i].status = "failed" /\ results[i].error = ret[t].error

\* C5: on a built acyclic graph whose node ids are all keys of the tasks
\* mapping, orchestrate() never raises OrchestrationError, and when it has
\* returned the list holds one outcome per task, a raised exception as a Failed
\* outcome with the exception's message.
C5_OrchestrateReturnsAll ==
    Nodes(graph) \subseteq DOMAIN tasks =>
        /\ opc # "failed"
        /\ opc = "returned" => OneOutcomePerTask

\* The same statement for task definitions that carry their own id in "task_id".
C5_WhenTaskIdsMatch ==
    (Nodes(graph) \subseteq DOMAIN tasks /\ \A t \in DOMAIN tasks : tasks[t] = t) =>
        /\ opc # "failed"
        /\ opc = "returned" => OneOutcomePerTask

Ancestors(g, n) == ReachFrom(g, Deps(g, n), Deps(g, n))

NoSharedAncestry(g, t, u) ==
    (Ancestors(g, t) \cup {t}) \cap (Ancestors(g, u) \cup {u}) = {}

TaskFailed(t) ==
    ret[t].kind = "exception" \/ (ret[t].kind = "result" /\ ret[t].status = "failed")

NeverBlockedBy(t) ==
    \A u \in DOMAIN graph :
        (t \in Ancestors(graph, u) \/ NoSharedAncestry(graph, t, u)) =>
            dispatchedAt[u] > 0

\* C6: when orchestrate() has ended, every task that depends on a task that
\* returned Failed or raised, and every task that shares no ancestry with it,
\* has been dispatched.
C6_FailureNeverBlocks ==
    (Nodes(graph) \subseteq DOMAIN tasks /\ opc \in {"returned", "failed"}) =>
        \A t \in DOMAIN graph : TaskFailed(t) => NeverBlockedBy(t)

\* The same statement for task definitions that carry their own id in "task_id".
C6_WhenTaskIdsMatch ==
    (/\ Nodes(graph) \subseteq DOMAIN tasks
     /\ \A t \in DOMAIN tasks : tasks[t] = t
     /\ opc \in {"returned", "failed"}) =>
        \A t \in DOMAIN graph : TaskFailed(t) => NeverBlockedBy(t)

\* The step is one add_dynamic_tasks call on a non-empty batch whose entries
\* all carry a dependency collection.
AddDynamicTasksStep ==
    /\ add_calls' = add_calls + 1
    /\ new_tasks' # <<>>
    /\ \A i \in 1..Len(new_tasks') : new_tasks'[i].kind = "set"

BatchIds(b) == {b[i].id : i \in 1..Len(b)}

BatchDeps(b) == UNION {b[i].deps : i \in 1..Len(b)}

\* The batch's entries are in edge map g with exactly their declared dependencies.
BatchApplied(g, b) ==
    \A i \in 1..Len(b) : b[i].id \in DOMAIN g /\ g[b[i].id] = b[i].deps

\* C8: add_dynamic_tasks is atomic with respect to cycles: when applying the
\* batch to the live graph would create a cycle, the call fails and the edge
\* map, the built flag and the engine are what they were before the call.
C8_AtomicOnCycle ==
    [][(AddDynamicTasksStep /\ FindCycle(AddTasks(graph, new_tasks'))) =>
          /\ lastOp'.result # "ok"
          /\ graph' = graph
          /\ is_built' = is_built
          /\ sorter' = sorter]_vars

\* A batch that redefines two tasks of a built graph into a cycle came back
\* with the rebuild's error and the graph holds the cycle.
C8_Witness ==
    /\ lastOp.op = "add_dynamic_tasks" /\ lastOp.result = UnexpectedCycleError
    /\ Len(new_tasks) = 2
    /\ BatchApplied(graph, new_tasks)
    /\ FindCycle(graph) /\ ~is_built

\* C9: a batch whose tasks depend on one another without a cycle is accepted:
\* a dependency may be in the live graph, in the completed set or another id
\* of the batch, and afterwards every batch task is in the graph with exactly
\* its declared dependencies.
C9_InternalDependenciesAccepted ==
    [][(/\ AddDynamicTasksStep
        /\ BatchIds(new_tasks') \cap DOMAIN graph = {}
        /\ ~FindCycle(AddTasks(graph, new_tasks'))
        /\ BatchDeps(new_tasks') \subseteq
              (DOMAIN graph \cup completed_tasks \cup BatchIds(new_tasks'))) =>
          /\ lastOp'.result = "ok"
          /\ BatchApplied(graph', new_tasks')]_vars

\* A chain of two new tasks, the first on an existing task, was turned down
\* for a missing dependency.
C9_Witness ==
    /\ lastOp.op = "add_dynamic_tasks" /\ lastOp.result = NonExistentTaskError
    /\ Len(new_tasks) = 2
    /\ new_tasks[1].deps \subseteq DOMAIN graph /\ new_tasks[1].deps # {}
    /\ new_tasks[2].deps = {new_tasks[1].id}
    /\ BatchIds(new_tasks) \cap DOMAIN graph = {}

\* The edge map of the batch alone.
BatchGraph(b) == AddTasks(EmptyGraph, b)

\* C10: a batch of new tasks that reference each other in a cycle is rejected
\* with a DynamicTaskRegistrationError that reports a cycle, not a missing
\* dependency, and none of the batch's ids is in the graph afterwards.
C10_CyclicBatchRejected ==
    [][(/\ AddDynamicTasksStep
        /\ BatchIds(new_tasks') \cap DOMAIN graph = {}
        /\ FindCycle(BatchGraph(new_tasks'))) =>
          /\ lastOp'.result \in {WouldCreateCycleError, UnexpectedCycleError}
          /\ BatchIds(new_tasks') \cap DOMAIN graph' = {}]_vars

\* Two new tasks that depend on each other were turned down for a missing
\* dependency.
C10_Witness ==
    /\ lastOp.op = "add_dynamic_tasks" /\ lastOp.result = NonExistentTaskError
    /\ Len(new_tasks) = 2
    /\ new_tasks[1].deps = {new_tasks[2].id}
    /\ new_tasks[2].deps = {new_tasks[1].id}
    /\ BatchIds(new_tasks) \cap DOMAIN graph = {}

\* An entry add_dynamic_tasks must turn down: no "dependencies" field, a
\* value that is no set or list, or a reference to a task that is neither in
\* the live graph nor in the completed set.
OffendingEntry(e) ==
    \/ e.kind # "set"
    \/ ~(e.deps \subseteq (DOMAIN graph \cup completed_tasks))

\* C11: when add_dynamic_tasks fails on an entry without dependencies field,
\* with a non-collection value or with a reference to an unknown task, at
\* whatever position of the batch, the call fails and the live graph's edges,
\* built flag and engine and the work queue are unchanged.
C11_FailedValidationChangesNothing ==
    [][(add_calls' = add_calls + 1) =>
          /\ (\E i \in 1..Len(new_tasks') : OffendingEntry(new_tasks'[i])) =>
                lastOp'.result # "ok"
          /\ lastOp'.result \in {"ValueError", NonExistentTaskError} =>
                /\ graph' = graph
                /\ is_built' = is_built
                /\ sorter' = sorter
                /\ new_tasks_queue' = new_tasks_queue]_vars

\* A batch whose first entry is valid and new and whose second entry has no
\* dependencies field was turned down, and the first entry is not in the graph.
C11_Witness ==
    /\ lastOp.op = "add_dynamic_tasks" /\ lastOp.result = "ValueError"
    /\ Len(new_tasks) = 2
    /\ new_tasks[1].kind = "set" /\ new_tasks[1].deps # {}
    /\ new_tasks[1].deps \subseteq DOMAIN graph
    /\ new_tasks[2].kind = "missing"
    /\ new_tasks[1].id \notin DOMAIN graph
    /\ is_built /\ new_tasks_queue = <<>>

\* C13: after rebuild() following a mutation of a built graph, the ids that
\* had been marked completed before are not handed out again: they are not in
\* the rebuilt engine's ready list and get_ready_tasks() never returns them.
C13_CompletionSurvivesRebuild ==
    /\ (lastOp.op = "rebuild" /\ lastOp.result = "ok") =>
          sorter.ready \cap completedBefore = {}
    /\ lastOp.op = "get_ready_tasks" => lastOp.ret \cap completedBefore = {}

\* A task completed, an independent task added, the graph rebuilt:
\* get_ready_tasks() returned the completed task together with the new one.
C13_Witness ==
    /\ lastOp.op = "get_ready_tasks"
    /\ completedBefore # {}
    /\ completedBefore \subseteq lastOp.ret
    /\ lastOp.ret \ completedBefore # {}
    /\ \A n \in DOMAIN graph : graph[n] = {}

\* A task of the running orchestration registered new tasks successfully:
\* their ids are on the manager's queue.
InjectedIds == {new_tasks_queue[i] : i \in 1..Len(new_tasks_queue)}

\* C12: when add_dynamic_tasks succeeds during a tick of orchestrate(), the
\* orchestration does not fail, and when it has returned every task it
\* dispatched was marked done and every injected task was dispatched.
C12_InjectionIsPickedUp ==
    InjectedIds # {} =>
        /\ opc # "failed"
        /\ opc = "returned" =>
              /\ \A t \in TaskIds : dispatchedAt[t] > 0 => markedAt[t] > 0
              /\ \A t \in InjectedIds : dispatchedAt[t] > 0

\* A task of the first tick registered a new task that depends on it; the
\* tick's mark_completed was refused by the rebuilt engine and orchestrate()
\* raised before dispatching the new task.
C12_Witness ==
    /\ opc = "failed" /\ tick = 1
    /\ lastOp.op = "mark_completed" /\ lastOp.result = "ValueError"
    /\ \E t \in InjectedIds :
          /\ t \notin completedBefore
          /\ graph[t] # {} /\ dispatchedAt[t] = 0
          /\ \A d \in graph[t] : dispatchedAt[d] = 1

\* The calls that stand between acquiring and releasing the manager's lock.
InsideLock == {c \in Callers : dpc[c] = "put"}

\* The ids registered by the calls that returned.
RegisteredIds ==
    UNION {BatchIdsOf(caller_tasks[c]) : c \in {d \in Callers : dpc[d] = "returned"}}

\* The last n entries of the queue.
QueueTail(n) == SubSeq(new_tasks_queue, Len(new_tasks_queue) - n + 1, Len(new_tasks_queue))

\* C14: concurrent add_dynamic_tasks calls are serialized by the lock: at most
\* one call is past it, what that call has enqueued so far sits unbroken at
\* the queue's end, and once no call is in progress every task of a call that
\* returned is in the graph with its dependencies, the graph is built and
\* the queue holds exactly one entry per task.
C14_CallsAreSerialized ==
    /\ Cardinality(InsideLock) <= 1
    /\ lock <=> InsideLock # {}
    /\ \A c \in InsideLock :
          /\ put_count[c] <= Len(new_tasks_queue)
          /\ QueueTail(put_count[c]) =
                [i \in 1..put_count[c] |-> caller_tasks[c][i].id]
    /\ (\A c \in Callers : dpc[c] \in {"returned", "raised"}) =>
          /\ \A c \in Callers : dpc[c] = "returned" => BatchApplied(graph, caller_tasks[c])
          /\ is_built
          /\ Len(new_tasks_queue) = Cardinality(RegisteredIds)
          /\ InjectedIds = RegisteredIds

\* Two calls registered three new tasks between them, one call waited for
\* the lock while the other was enqueueing, and both have returned.
C14_Witness ==
    /\ \A c \in Callers : dpc[c] = "returned"
    /\ Len(new_tasks_queue) = 3
    /\ \E c \in Callers : Len(caller_tasks[c]) = 2
    /\ DOMAIN graph = TaskIds
    /\ is_built

\* C15: the first attempt whose error classifies as permanent is the last
\* invocation: execute_with_retry re-raises that error at once, without a
\* sleep after it, however many attempts remain; a function that fails
\* permanently at its first invocation is invoked exactly once.
C15_PermanentAbortsAtOnce ==
    \A i \in 1..Len(func_errors) :
        ClassifyException(func_errors[i]) = "permanent" =>
            /\ i = Len(func_errors)
            /\ func_calls = i
            /\ rpc = "raised"
            /\ retry_out = [kind |-> "exception", error |-> func_errors[i]]
            /\ Len(sleeps) = i - 1

\* A transient error, then a permanent one with an attempt left: two
\* invocations, one sleep.
C15_Witness ==
    /\ rpc = "raised" /\ max_attempts = 3 /\ func_calls = 2
    /\ ClassifyException(func_errors[1]) = "transient"
    /\ ClassifyException(func_errors[2]) = "permanent"
    /\ func_errors[2].cls = "Exception"
    /\ Len(sleeps) = 1

\* Every invocation so far raised an error that is transient or unknown.
AlwaysFailedRetryably ==
    /\ func_calls = Len(func_errors)
    /\ \A i \in 1..Len(func_errors) :
          ClassifyException(func_errors[i]) \in {"transient", "unknown"}

\* C16: with max_attempts = n >= 1 and a function that always fails with a
\* transient or unknown error, the function is invoked exactly n times, the
\* sleep after failed attempt k < n is base_delay * 2^(k-1), there is none
\* after attempt n, and the last error is re-raised.
C16_ExhaustionAndBackoff ==
    (max_attempts >= 1 /\ AlwaysFailedRetryably) =>
        /\ func_calls <= max_attempts
        /\ sleeps = [k \in 1..Len(sleeps) |-> base_delay_seconds * 2^(k - 1)]
        /\ rpc = "attempt" => Len(sleeps) = func_calls /\ func_calls < max_attempts
        /\ rpc = "raised" =>
              /\ func_calls = max_attempts
              /\ Len(sleeps) = max_attempts - 1
              /\ retry_out = [kind |-> "exception", error |-> func_errors[func_calls]]
        /\ rpc # "returned"

\* Three attempts with base delay 30, an unknown error among transient ones:
\* sleeps of 30 and 60, then the last error is re-raised.
C16_Witness ==
    /\ rpc = "raised" /\ max_attempts = 3 /\ base_delay_seconds = 30
    /\ func_calls = 3 /\ AlwaysFailedRetryably
    /\ ClassifyException(func_errors[2]) = "unknown"
    /\ ClassifyException(func_errors[3]) = "transient"
    /\ sleeps = <<30, 60>>
    /\ retry_out.error = func_errors[3]

\* execute_with_retry gave up on task t: its last allowed attempt raised an
\* error that is not permanent.
RetriesExhausted(t) ==
    /\ ret[t].kind = "exception"
    /\ ret[t].attempts = MaxAttempts
    /\ ClassifyError(ret[t].error) # "permanent"

\* C17: when orchestrate() has returned, a task whose retries were exhausted
\* has a Failed outcome that records the last underlying error and the
\* number of attempts that were made.
C17_ExhaustionIsRecorded ==
    opc = "returned" =>
        \A t \in TaskIds :
            RetriesExhausted(t) =>
                \E i \in 1..Len(results) :
                    /\ results[i].task_id = t
                    /\ results[i].status = "failed"
                    /\ results[i].error = ret[t].error
                    /\ results[i].retry_count = ret[t].attempts

\* orchestrate() returned the outcome of a task whose retries were exhausted:
\* Failed, with the last error, and a retry_count of 0.
C17_Witness ==
    /\ opc = "returned"
    /\ \E t \in TaskIds :
          /\ RetriesExhausted(t)
          /\ \E i \in 1..Len(results) :
                results[i] = [task_id |-> t, status |-> "failed",
                              error |-> ret[t].error, retry_count |-> 0]

\* The tasks of the tick in progress that are critical and returned Failed
\* or raised.
FailedCritical == {t \in ready_task_ids : t \in critical_task_ids /\ IsFailed(t)}

\* The step in which the early-termination loop processes a gathered tick.
EarlyCollectStep ==
    /\ critical_task_ids # NoCritical
    /\ opc = "gather"
    /\ opc' # "gather"

\* C18: when a task of the critical set returned Failed or raised, the loop
\* leaves that tick with an OrchestrationError that carries the task's id,
\* marks none of the tick's tasks done, and dispatches no further tick.
C18_CriticalFailureAborts ==
    [][/\ (EarlyCollectStep /\ FailedCritical # {}) =>
              /\ opc' = "failed"
              /\ error_task_id' \in FailedCritical
              /\ finished' = finished
              /\ sorter' = sorter
       /\ opc = "failed" => (opc' = "failed" /\ tick' = tick /\ epc' = epc)]_vars

\* The second tick dispatched a critical task that raised next to a task that
\* completed: OrchestrationError names the critical task, the other is not
\* marked done.
C18_Witness ==
    /\ opc = "failed"
    /\ tick = 2
    /\ error_task_id \in TaskIds
    /\ error_task_id \in critical_task_ids
    /\ dispatchedAt[error_task_id] = 2
    /\ ret[error_task_id].kind = "exception"
    /\ \E u \in TaskIds \ {error_task_id} :
          /\ dispatchedAt[u] = 2
          /\ ret[u].status = "completed"
          /\ ret[u].task_id = u
          /\ u \notin finished

\* C19: in the early-termination loop a non-critical task that returned
\* Failed under its own id, or raised, is marked done in the graph by the
\* step that processes its tick, as in orchestrate().
C19_NonCriticalFailureIsMarked ==
    [][(EarlyCollectStep /\ opc' = "loop") =>
          \A t \in ready_task_ids :
              (IsFailed(t) /\ t \notin critical_task_ids
                 /\ (ret[t].kind = "result" => ret[t].task_id = t))
                  => t \in finished']_vars

\* A non-critical task failed, its tick was processed, and the loop is still
\* running with that task never marked done and its dependent never dispatched.
C19_Witness ==
    /\ critical_task_ids # NoCritical
    /\ opc = "loop"
    /\ ready_task_ids = {}
    /\ \E t \in DOMAIN graph, u \in DOMAIN graph :
          /\ t \in graph[u]
          /\ dispatchedAt[t] = 1
          /\ tick = 1
          /\ epc[t] = "idle"
          /\ ret[t].kind = "result" /\ ret[t].status = "failed" /\ ret[t].task_id = t
          /\ t \notin critical_task_ids
          /\ t \notin finished
          /\ dispatchedAt[u] = 0
          /\ lastOp = Op("get_ready_tasks", "ok", {})

\* Every worker of the pool is Idle or Busy.
NoFailedAgent == \A a \in Agents : agents[a].status # "failed"

\* Task t has its terminal outcome: execute_task returned or raised.
HasOutcome(t) == ret[t].kind # "none"

\* C20: with a pool whose workers were all Idle and more independent tasks
\* than workers dispatched together, every task waiting at the semaphore
\* eventually has a worker and then a terminal outcome, and none is ever in
\* the idle-worker poll.
C20_EveryTaskGetsAWorker ==
    /\ \A t \in TaskIds :
          (NoFailedAgent /\ epc[t] = "wait_sem") ~> (epc[t] = "running")
    /\ \A t \in TaskIds :
          (NoFailedAgent /\ epc[t] = "wait_sem") ~> HasOutcome(t)
    /\ [](NoFailedAgent => \A t \in TaskIds : epc[t] # "poll")

\* Both workers busy, both slots taken, and a third task at the semaphore.
C20_Witness ==
    /\ NoFailedAgent
    /\ Cardinality(TaskIds) > PoolSize
    /\ semaphore = 0
    /\ BusyAgents = Agents
    /\ \E t \in TaskIds : epc[t] = "wait_sem" /\ dispatchedAt[t] = 1

\* C21: mark_busy on a worker that is not Idle and reset_agent on a worker
\* that is not Failed raise an error and leave every worker's status and
\* current task as they were.
C21_IllegalTransitionsRejected ==
    [][/\ \A a \in Agents :
             (pool_op'.op = "mark_busy" /\ pool_op'.agent = a
                /\ agents[a].status # "idle")
                 => (pool_op'.result = "ValueError" /\ agents' = agents)
       /\ \A a \in Agents :
             (pool_op'.op = "reset_agent" /\ pool_op'.agent = a
                /\ agents[a].status # "failed")
                 => (pool_op'.result = "ValueError" /\ agents' = agents)]_vars

\* mark_busy was refused on a worker that is busy with another task, while
\* the other worker is failed.
C21_Witness ==
    /\ pool_op.op = "mark_busy"
    /\ pool_op.result = "ValueError"
    /\ agents[pool_op.agent].status = "busy"
    /\ \E b \in Agents : agents[b].status = "failed"

\* C22: a worker goes from Failed to Idle only in a reset_agent call on it.
C22_OnlyResetRecovers ==
    [][\A a \in Agents :
          (agents[a].status = "failed" /\ agents'[a].status = "idle")
              => pool_op' = PoolOp("reset_agent", a, "ok", NoneAgent)]_vars

\* mark_idle was called on a worker and left it Idle, after an execute_task
\* call had returned.
C22_Witness ==
    /\ pool_op.op = "mark_idle"
    /\ agents[pool_op.agent].status = "idle"
    /\ \E t \in TaskIds : epc[t] = "returned"

\* C23: get_idle_agent returns the Idle worker of lowest index, None when no
\* worker is Idle, and changes no worker.
C23_FirstIdleAgent ==
    [][pool_op'.op = "get_idle_agent" =>
          /\ agents' = agents
          /\ LET r == pool_op'.ret
             IN IF \E a \in Agents : agents[a].status = "idle"
                  THEN /\ r \in Agents
                       /\ agents[r].status = "idle"
                       /\ \A b \in Agents : b < r => agents[b].status # "idle"
                  ELSE r = NoneAgent]_vars

\* get_idle_agent skipped a failed worker of lower index and returned the
\* idle one behind it.
C23_Witness ==
    /\ pool_op.op = "get_idle_agent"
    /\ pool_op.ret \in Agents
    /\ \E b \in Agents : b < pool_op.ret /\ agents[b].status = "failed"
    /\ agents[pool_op.ret].status = "idle"

\* p is a cyclic path of the graph: it ends where it starts and each entry
\* depends on the next.
IsCyclicPath(p) ==
    /\ Len(p) >= 2
    /\ p[1] = p[Len(p)]
    /\ \A i \in 1..(Len(p) - 1) : p[i + 1] \in Deps(graph, p[i])

\* C24: every cycle reported by validate is a cyclic path of the graph.
C24_ReportedCyclesAreCycles ==
    report # NoCall =>
        \A i \in 1..Len(report.cycles) : IsCyclicPath(report.cycles[i])

\* validate reported two cycles on a graph where a task depends on a cycle
\* it is not part of.
C24_Witness ==
    /\ report # NoCall
    /\ Len(report.cycles) = 2
    /\ \E t \in DOMAIN graph :
          /\ t \notin ReachFrom(graph, Deps(graph, t), Deps(graph, t))
          /\ \E u \in Deps(graph, t) : u \in ReachFrom(graph, Deps(graph, u), Deps(graph, u))

\* C25: the report is invalid exactly when the edges contain a cycle, which
\* is exactly when build() on them raises CycleDetectedError; missing
\* references and orphaned tasks leave it valid.
C25_InvalidIffCyclic ==
    report # NoCall =>
        /\ report.is_valid = ~FindCycle(graph)
        /\ lastOp.op = "build" =>
              (report.is_valid = (lastOp.result # "CycleDetectedError"))

\* A valid report that names a missing reference, on edges that build()
\* accepted.
C25_Witness ==
    /\ report # NoCall
    /\ report.is_valid
    /\ report.missing_refs # {}
    /\ Cardinality(DOMAIN graph) = 2
    /\ lastOp = Op("build", "ok", {})


\* The engine does not describe the edge map: nothing was built, or the map
\* was changed after the engine was made.
EngineOutOfDate == ~is_built \/ sorter.edges # graph

\* C26: from add_task on a built graph until a later build() or rebuild()
\* succeeds, get_ready_tasks() returns nothing, is_active() is false and
\* mark_completed() raises ValueError, and none of them touches the engine.
C26_InvalidatedUntilBuilt ==
    [][EngineOutOfDate =>
          /\ ~IsActive
          /\ lastOp'.op = "get_ready_tasks" =>
                lastOp'.ret = {} /\ UNCHANGED <<sorter, handed, finished>>
          /\ lastOp'.op = "mark_completed" =>
                lastOp'.result = "ValueError" /\ UNCHANGED <<sorter, handed, finished>>
          /\ is_built' => lastOp'.op \in {"build", "rebuild"} /\ lastOp'.result = "ok"]_vars

\* A drained task's graph was given a cycle, rebuild() failed, and
\* mark_completed() was refused afterwards.
C26_Witness ==
    /\ ~is_built /\ sorter.state = "cyclic"
    /\ completedBefore # {}
    /\ ~IsActive
    /\ lastOp = Op("mark_completed", "ValueError", {})

MarkedCompleted == completedBefore \cup finished

\* C28: on an acyclic graph is_active() is true exactly when the graph is
\* built and some node has not been marked completed yet; an empty graph
\* builds and is inactive at once.
C28_ActiveIffUnfinished ==
    /\ Acyclic(graph) =>
          (IsActive <=> is_built /\ ~(Nodes(graph) \subseteq MarkedCompleted))
    /\ (lastOp.op = "build" /\ Nodes(graph) = {}) =>
          lastOp.result = "ok" /\ is_built /\ ~IsActive

\* A rebuilt graph all of whose nodes were marked completed, still active.
C28_Witness ==
    /\ is_built /\ IsActive
    /\ Nodes(graph) # {}
    /\ Nodes(graph) \subseteq MarkedCompleted
    /\ lastOp = Op("mark_completed", "ok", {})

\* C29: RetryConfig(enabled = True, max_attempts = 0) raises ValueError, so
\* a call made under an enabled configuration runs func at least once.
C29_EnabledNeedsAnAttempt ==
    retry_config.op = "RetryConfig" =>
        /\ (retry_config.enabled /\ retry_config.max_attempts = 0) =>
              retry_config.result = "ValueError"
        /\ (retry_config.result = "ok" /\ retry_config.enabled
                /\ rpc \in {"returned", "raised"}) => func_calls >= 1

\* An enabled configuration with no attempts was accepted and the call made
\* under it ended in RuntimeError without running func.
C29_Witness ==
    /\ retry_config.op = "RetryConfig" /\ retry_config.result = "ok"
    /\ retry_config.enabled /\ retry_config.max_attempts = 0
    /\ rpc = "raised" /\ func_calls = 0
    /\ retry_out = [kind |-> "exception", error |-> RuntimeError]

\* C30: in every tick of orchestrate() the ids passed to mark_completed are
\* exactly the ids dispatched in that tick, whatever task_id the returned
\* outcomes carry.
C30_MarksWhatWasDispatched ==
    [][(opc = "gather" /\ opc' # "gather") =>
          {CompletedId(t) : t \in ready_task_ids} = ready_task_ids]_vars

\* A tick whose returned outcome carries "unknown": mark_completed was given
\* that id, refused it, and the dispatched id was never marked.
C30_Witness ==
    /\ opc = "failed"
    /\ lastOp = Op("mark_completed", "ValueError", {})
    /\ \E i \in 1..Len(results) : results[i].task_id = "unknown"
    /\ \E t \in TaskIds : dispatchedAt[t] = tick /\ tick > 0 /\ markedAt[t] = 0

\* The execute_task calls between taking the semaphore slot and leaving.
InExecuteTask(t) == epc[t] \in {"poll", "running"}

\* C31: a task id is in active_tasks from the moment its semaphore slot is
\* taken until execute_task leaves; on every way out (a result, an exception
\* of the execution, an exception while waiting for a worker) the worker it
\* held is idle again, no worker is left bound to an id that is not active,
\* the id is out of active_tasks, the slot is given back, and an exception
\* reaches the caller as an exception.
C31_CleanupOnEveryExit ==
    [][\A t \in TaskIds :
          /\ (epc'[t] \in {"poll", "running"}) <=> t \in active_tasks'
          /\ agent'[t].has => t \in active_tasks'
          /\ semaphore' = PoolSize - Cardinality(active_tasks')
          /\ (InExecuteTask(t) /\ epc'[t] \in {"returned", "raised"}) =>
                /\ t \notin active_tasks'
                /\ semaphore' = semaphore + 1
                /\ IF agent[t].has
                     THEN agents'[agent[t].id] = IdleAgent
                     ELSE agents' = agents
                /\ ~agent'[t].has
                /\ epc'[t] = "raised" <=> ret'[t].kind = "exception"
                /\ epc'[t] = "returned" <=> t \in task_results']_vars

\* The call was cancelled while it waited for a worker: nothing is held.
C31_Witness ==
    \E t \in TaskIds :
        /\ epc[t] = "raised"
        /\ ret[t] = Raised("CancelledError", 0)
        /\ active_tasks = {}
        /\ semaphore = PoolSize
        /\ \A a \in Agents : agents[a].status = "failed"

\* C32: through mark_busy, mark_idle, mark_failed and reset_agent (and the
\* execute_task calls that use them) a worker has a current task exactly
\* when it is busy, the pool keeps its workers, and the idle, busy and failed
\* counts of get_stats() add up to the pool size.
C32_TaskIffBusy ==
    /\ DOMAIN agents = Agents
    /\ \A a \in Agents :
          /\ agents[a].status \in {"idle", "busy", "failed"}
          /\ agents[a].current_task # NoTask <=> agents[a].status = "busy"
    /\ GetStats(agents)["idle"] + GetStats(agents)["busy"]
          + GetStats(agents)["failed"] = PoolSize

\* A busy worker was marked failed while another one serves a task.
C32_Witness ==
    /\ pool_op.op = "mark_failed"
    /\ GetStats(agents) = [s \in {"idle", "busy", "failed"} |->
                              IF s = "idle" THEN 0 ELSE 1]
    /\ \E t \in TaskIds : epc[t] = "running" /\ agents[agent[t].id].status = "failed"

\* C33: classify_error applies its rules in a fixed order: the failure_type
\* of a RetryableError, then the transient exception types, then the
\* transient message patterns, then the permanent ones, else UNKNOWN; a
\* message with a pattern of both kinds is TRANSIENT, the result is one of
\* the three failure types, and execute_with_retry gives up early exactly on
\* the errors classified PERMANENT.
C33_ClassifyPrecedence ==
    last_error # NoError =>
        LET ft == ClassifyException(last_error)
        IN /\ ft \in FailureTypes
           /\ last_error.cls = "RetryableError" => ft = last_error.failure_type
           /\ last_error.cls \in TransientErrorTypes => ft = "transient"
           /\ last_error.cls = "Exception" =>
                 /\ HasTransientPattern(last_error.msg) => ft = "transient"
                 /\ (~HasTransientPattern(last_error.msg)
                        /\ HasPermanentPattern(last_error.msg)) => ft = "permanent"
                 /\ (~HasTransientPattern(last_error.msg)
                        /\ ~HasPermanentPattern(last_error.msg)) => ft = "unknown"
           /\ ft = "permanent" => rpc = "raised"
           /\ (rpc = "raised" /\ retry_attempt < max_attempts) => ft = "permanent"

\* An exception whose message has a transient and a permanent pattern was
\* raised by func, and execute_with_retry slept and went on.
C33_Witness ==
    /\ last_error = [cls |-> "Exception", msg |-> "Invalid response: timeout",
                     failure_type |-> "none"]
    /\ rpc = "attempt"
    /\ retry_attempt = 2
    /\ Len(sleeps) = 1

\* The ids of a batch in its iteration order.
BatchOrder(b) == [i \in 1..Len(b) |-> b[i].id]

\* C34: a registered batch is put on new_tasks_queue entry by entry, once
\* each, in the batch's order and with the graph rebuilt over the new edges;
\* a failed registration puts nothing; get_next_task() takes the oldest
\* entry and returns nothing, leaving the queue alone, when it is empty.
C34_QueuedOnceInOrder ==
    [][/\ add_calls' = add_calls + 1 =>
            IF lastOp'.result = "ok"
              THEN /\ new_tasks_queue' = new_tasks_queue \o BatchOrder(new_tasks')
                   /\ new_tasks' # <<>> =>
                         is_built' /\ sorter'.edges = graph'
                            /\ BatchApplied(graph', new_tasks')
              ELSE new_tasks_queue' = new_tasks_queue
       /\ lastOp'.op = "get_next_task" =>
            IF new_tasks_queue = <<>>
              THEN lastOp'.ret = {} /\ new_tasks_queue' = <<>>
              ELSE /\ lastOp'.ret = {Head(new_tasks_queue)}
                   /\ new_tasks_queue' = Tail(new_tasks_queue)]_vars

\* A batch of two was registered and get_next_task() returned its first
\* entry; the second is still queued.
C34_Witness ==
    /\ add_calls = 1
    /\ Len(new_tasks_queue) = 1
    /\ lastOp.op = "get_next_task"
    /\ lastOp.ret # {} /\ new_tasks_queue[1] \notin lastOp.ret
    /\ is_built /\ lastOp.ret \cup {new_tasks_queue[1]} \subseteq DOMAIN graph

\* C35: copy() returns a graph with an equal edge map, not built and with
\* no sorter; add_task and build on the copy, and the cycle check of the
\* dynamic manager made on a copy, leave the original's edges, built flag and
\* sorter as they are, and add_task and build on the original leave the copy
\* as it is.
C35_CopyIsIndependent ==
    [][/\ lastOp'.op = "copy" =>
            /\ TempEdges(temp_graph', graph') = graph
            /\ ~temp_graph'.is_built /\ temp_graph'.sorter = NoSorter
       /\ lastOp'.op \in {"copy", "temp.add_task", "temp.build", "_would_create_cycle"} =>
            UNCHANGED <<graph, is_built, sorter>>
       /\ lastOp'.op = "_would_create_cycle" =>
            (lastOp'.result = "True" <=> FindCycle(TempEdges(temp_graph', graph')))
       /\ lastOp'.op \in {"add_task", "build"} =>
            /\ TempEdges(temp_graph', graph') = TempEdges(temp_graph, graph)
            /\ temp_graph'.is_built = temp_graph.is_built
            /\ temp_graph'.sorter = temp_graph.sorter]_vars

\* The cycle check answered True on a built graph: the copy holds the
\* cycle, the live graph is acyclic and still built.
C35_Witness ==
    /\ lastOp = Op("_would_create_cycle", "True", {})
    /\ temp_graph.has /\ ~temp_graph.is_built
    /\ FindCycle(TempEdges(temp_graph, graph))
    /\ is_built /\ ~FindCycle(graph) /\ DOMAIN graph = CopyIds

\* The ids the graph names as a prerequisite that are neither a task of the
\* graph nor a key of the tasks mapping.
Dangling == (UNION {graph[k] : k \in DOMAIN graph}) \ (DOMAIN graph \cup DOMAIN tasks)

BoundTo(a) == {t \in TaskIds : agent[t].has /\ agent[t].id = a}

\* C37: every worker serves at most one execute_task call and every call
\* past the acquisition of a worker holds exactly one, which is busy with
\* that call's task; the worker a call takes was idle when mark_busy was
\* called on it, so mark_busy never raises inside execute_task.
C37_OneTaskPerWorker ==
    [][/\ \A a \in Agents : Cardinality({t \in TaskIds : agent'[t].has /\ agent'[t].id = a}) <= 1
       /\ \A t \in TaskIds :
            /\ epc'[t] = "running" <=> agent'[t].has
            /\ agent'[t].has =>
                  agents'[agent'[t].id] = [status |-> "busy", current_task |-> t]
            /\ (~agent[t].has /\ agent'[t].has) =>
                  /\ MarkBusyAllowed(agents[agent'[t].id].status)
                  /\ BoundTo(agent'[t].id) = {}]_vars

\* Two calls of one tick run at the same time, each on its own worker, and a
\* third waits for the semaphore.
C37_Witness ==
    /\ \A a \in Agents : Cardinality(BoundTo(a)) = 1
    /\ Cardinality({t \in TaskIds : epc[t] = "running"}) = PoolSize
    /\ \E t \in TaskIds : epc[t] = "wait_sem"
    /\ \A a \in Agents : agents[a].status = "busy"

\* C38: validate() never reports an orphaned task: either it found a cycle
\* and skipped the orphan check, or the graph has no cycle and every task is
\* reached by the walk from the end nodes back along the dependencies.
C38_NoOrphansReported ==
    report.op = "validate" =>
        /\ report.orphaned_tasks = {}
        /\ report.cycles = <<>> =>
              /\ ~FindCycle(graph)
              /\ DOMAIN graph \subseteq
                    ReachFrom(graph, FindEndNodes(graph), FindEndNodes(graph))
        /\ report.cycles # <<>> => FindCycle(graph)

\* Two disconnected parts, each with its own end node, validated.
C38_Witness ==
    /\ report.op = "validate" /\ report.cycles = <<>>
    /\ DOMAIN graph = TaskIds
    /\ Cardinality(FindEndNodes(graph)) = 2
    /\ \E t \in TaskIds : graph[t] # {} /\ graph[t] \subseteq DOMAIN graph
    /\ report.orphaned_tasks = {}

\* C39: for max_attempts >= 1 execute_with_retry calls func at least once
\* and at most max_attempts times, stops at the first call that returns,
\* sleeps once between two consecutive calls and not after the last, and
\* ends by returning func's result or by raising the error of the last call.
C39_AttemptsAndSleeps ==
    (max_attempts >= 1 /\ rpc # "idle") =>
        /\ func_calls <= max_attempts
        /\ retry_attempt <= max_attempts
        /\ rpc = "attempt" =>
              /\ func_calls = retry_attempt - 1
              /\ Len(func_errors) = func_calls
              /\ Len(sleeps) = func_calls
        /\ rpc \in {"returned", "raised"} =>
              /\ func_calls >= 1
              /\ Len(sleeps) = func_calls - 1
        /\ rpc = "returned" =>
              /\ retry_out.kind = "result"
              /\ Len(func_errors) = func_calls - 1
        /\ rpc = "raised" =>
              /\ Len(func_errors) = func_calls
              /\ retry_out = [kind |-> "exception", error |-> func_errors[func_calls]]

\* Two calls failed, the third returned: two sleeps, none after the result.
C39_Witness ==
    /\ max_attempts = MaxRetryAttempts /\ rpc = "returned"
    /\ func_calls = MaxRetryAttempts
    /\ Len(func_errors) = MaxRetryAttempts - 1
    /\ Len(sleeps) = MaxRetryAttempts - 1
    /\ base_delay_seconds = 30
    /\ retry_out.kind = "result"
=============================================================================
